---- MODULE Spec2Model ----
(***************************************************************************)
(* Model of the placement engine of pawdon/containers                      *)
(* (src/shipments_manager.py): a Shipment owns an occupancy map, the       *)
(* per-level lists of placed containers and the flat list of containers.   *)
(*                                                                         *)
(* Objects are modelled by value.  A Container is identified by its cid    *)
(* (the containers manager admits every cid once), a PlacedContainer by    *)
(* its container and corner1 (its fields are never assigned after          *)
(* construction), a Ship by its sid.  Python's `in` / list.remove on these *)
(* objects (identity comparison, no __eq__ is defined) is equality of the  *)
(* modelled values.                                                        *)
(*                                                                         *)
(* Spec makes the calls on one Shipment.  SpecRegistry makes the calls on  *)
(* a ShipmentsManager, SpecWindow those on a TimestampsManager             *)
(* (src/timestamps_manager.py); each leaves the other objects as they are  *)
(* constructed.  SpecRun is a run of the Operator                          *)
(* (src/system_operator.py): the container and ship lines of an input     *)
(* file are entered, then optimize loops over the timestamps;              *)
(* SpecRunFair is SpecRun with the loop running to its end.  SpecShips     *)
(* makes the calls on a ShipsManager (src/ships_manager.py), and           *)
(* SpecMisuse is Spec with remove_recursively called on containers that    *)
(* are not placed, too.                                                    *)
(***************************************************************************)
EXTENDS Integers, Sequences, FiniteSets, TLC

\* ---------------------------------------------------------------- bounds
ShipLength == 2
ShipWidth == 2
ShipHeight == 35
ContainersHeight == 10
NumContainers == 3
MaxJoined == 2
NumOfferedContainers == 4
MaxOffered == 2
NumObjects == 2
MaxTimestamp == 5
NumRunContainers == 3
MaxRunTimestamp == 2
MaxRunShipments == 3
NumShips == 3
MaxShipTimestamp == 2
MaxCapacity == 2

\* ------------------------------------------------------------ data model

\* Ship(sid, length, width, height, timestamp)
Ship(sid) ==
    [sid |-> sid, length |-> ShipLength, width |-> ShipWidth,
     height |-> ShipHeight, timestamp |-> 39]

\* the two ships of the model; the shipment of the state is on the first
Ships == {Ship(1), Ship(2)}

\* Container(cid, length, width, height, timestamp): the containers of the
\* model are 1x1, every third one is 2x2.
Container(cid) ==
    [cid |-> cid,
     length |-> IF cid % 3 = 0 THEN 2 ELSE 1,
     width |-> IF cid % 3 = 0 THEN 2 ELSE 1,
     height |-> ContainersHeight,
     timestamp |-> IF cid % 2 = 0 THEN 40 ELSE 39]

Containers == {Container(cid) : cid \in 1..NumContainers}

CornerPosition(length, width, height_level) ==
    [length |-> length, width |-> width, height_level |-> height_level]

PlacedContainer(container, corner1) ==
    [container |-> container,
     corner1 |-> corner1,
     corner2 |-> CornerPosition(corner1.length + container.length,
                                corner1.width + container.width,
                                corner1.height_level)]

\* get_shifted_copy that leaves the height level as it is
get_shifted_copy_same_level(pc, diff_length, diff_width, diff_height_level) ==
    PlacedContainer(pc.container,
                    CornerPosition(pc.corner1.length + diff_length,
                                   pc.corner1.width + diff_width,
                                   pc.corner1.height_level))

get_shifted_copy(pc, diff_length, diff_width, diff_height_level) ==
    PlacedContainer(pc.container,
                    CornerPosition(pc.corner1.length + diff_length,
                                   pc.corner1.width + diff_width,
                                   pc.corner1.height_level + diff_height_level))

\* Shipment.__init__
Shipment(ship, containers_height) ==
    LET levels_nr == ship.height \div containers_height IN
    [ship |-> ship,
     containers_height |-> containers_height,
     levels_nr |-> levels_nr,
     placed_containers_levels |-> [k \in 1..levels_nr |-> << >>],
     all_containers |-> << >>,
     occupancy_map |->
        [c \in (0..(levels_nr - 1)) \X (0..(ship.length - 1)) \X (0..(ship.width - 1))
            |-> 0]]

\* ------------------------------------------------------- numpy helpers
\* checked_map[level, l1:l2, w1:w2]: the cells of a slice; a slice is clipped
\* to the array.
Slice(the_map, level, corner1, corner2) ==
    {c \in DOMAIN the_map :
        /\ c[1] = level
        /\ corner1.length <= c[2] /\ c[2] < corner2.length
        /\ corner1.width <= c[3] /\ c[3] < corner2.width}

RECURSIVE SumCells(_, _)
\* np.sum over a set of cells
SumCells(the_map, cells) ==
    IF cells = {} THEN 0
    ELSE LET c == CHOOSE x \in cells : TRUE
         IN the_map[c] + SumCells(the_map, cells \ {c})

\* x in list
InList(list, x) == \E i \in 1..Len(list) : list[i] = x

\* list.remove(x) for x in list: removes the first occurrence
ListRemove(list, x) ==
    LET i == CHOOSE j \in 1..Len(list) :
                 list[j] = x /\ \A k \in 1..(j - 1) : list[k] # x
    IN SubSeq(list, 1, i - 1) \o SubSeq(list, i + 1, Len(list))

\* ---------------------------------------------------- Shipment queries
get_used_levels_nr(sh) ==
    LET empties == {k \in 1..sh.levels_nr : Len(sh.placed_containers_levels[k]) = 0}
    IN IF empties = {} THEN sh.levels_nr
       ELSE (CHOOSE k \in empties : \A j \in empties : k <= j) - 1

get_all_containers(sh) == sh.all_containers

\* ----------------------------------------------------- Shipment checks
\* _check_redundancy looking for the placed container, not its container, in
\* the flat list
_check_redundancy_of_placed(sh, placed_container) ==
    ~InList(sh.all_containers, placed_container)

_check_redundancy(sh, placed_container) ==
    ~InList(sh.all_containers, placed_container.container)

\* _check_if_inside_ship without the test of corner2
_check_if_inside_ship_corner1(sh, placed_container) ==
    /\ 0 <= placed_container.corner1.height_level
    /\ placed_container.corner1.height_level < sh.levels_nr
    /\ 0 <= placed_container.corner1.length
    /\ placed_container.corner1.length <= sh.ship.length
    /\ 0 <= placed_container.corner1.width
    /\ placed_container.corner1.width <= sh.ship.width

_check_if_inside_ship(sh, placed_container) ==
    /\ 0 <= placed_container.corner1.height_level
    /\ placed_container.corner1.height_level < sh.levels_nr
    /\ 0 <= placed_container.corner1.length
    /\ placed_container.corner1.length <= sh.ship.length
    /\ 0 <= placed_container.corner1.width
    /\ placed_container.corner1.width <= sh.ship.width
    /\ 0 <= placed_container.corner2.length
    /\ placed_container.corner2.length <= sh.ship.length
    /\ 0 <= placed_container.corner2.width
    /\ placed_container.corner2.width <= sh.ship.width

\* _check_if_unoccupied summing the cell of corner1 alone
_check_if_unoccupied_corner1(placed_container, checked_map) ==
    LET occupied_area ==
            SumCells(checked_map,
                     Slice(checked_map, placed_container.corner1.height_level,
                           placed_container.corner1,
                           CornerPosition(placed_container.corner1.length + 1,
                                          placed_container.corner1.width + 1,
                                          placed_container.corner1.height_level)))
    IN occupied_area = 0

_check_if_unoccupied(placed_container, checked_map) ==
    LET occupied_area ==
            SumCells(checked_map,
                     Slice(checked_map, placed_container.corner1.height_level,
                           placed_container.corner1, placed_container.corner2))
    IN occupied_area = 0

\* _check_if_stable with the integer quotient (length * width) // 2
_check_if_stable_floor(placed_container, checked_map) ==
    IF placed_container.corner1.height_level = 0
    THEN TRUE
    ELSE LET area_below ==
                 SumCells(checked_map,
                          Slice(checked_map, placed_container.corner1.height_level - 1,
                                placed_container.corner1, placed_container.corner2))
         IN area_below >=
                (placed_container.container.length * placed_container.container.width) \div 2

\* area_below >= (length * width) / 2 is a comparison with a float quotient;
\* it is stated here on integers as 2 * area_below >= length * width.
_check_if_stable(placed_container, checked_map) ==
    IF placed_container.corner1.height_level = 0
    THEN TRUE
    ELSE LET area_below ==
                 SumCells(checked_map,
                          Slice(checked_map, placed_container.corner1.height_level - 1,
                                placed_container.corner1, placed_container.corner2))
         IN 2 * area_below >=
                placed_container.container.length * placed_container.container.width

\* ---------------------------------------------------- Shipment mutators
_add_to_map(placed_container, the_map) ==
    LET cells == Slice(the_map, placed_container.corner1.height_level,
                       placed_container.corner1, placed_container.corner2)
    IN [c \in DOMAIN the_map |-> IF c \in cells THEN 1 ELSE the_map[c]]

\* _remove_from_map with the slices one short: corner1 : corner2 - 1
_remove_from_map_short(placed_container, the_map) ==
    LET cells == Slice(the_map, placed_container.corner1.height_level,
                       placed_container.corner1,
                       CornerPosition(placed_container.corner2.length - 1,
                                      placed_container.corner2.width - 1,
                                      placed_container.corner2.height_level))
    IN [c \in DOMAIN the_map |-> IF c \in cells THEN 0 ELSE the_map[c]]

_remove_from_map(placed_container, the_map) ==
    LET cells == Slice(the_map, placed_container.corner1.height_level,
                       placed_container.corner1, placed_container.corner2)
    IN [c \in DOMAIN the_map |-> IF c \in cells THEN 0 ELSE the_map[c]]

\* The result of a mutator is the shipment it leaves and the exception it
\* raised, if any ("none", "IndexError", "ValueError").  An exception leaves
\* the assignments made before it in place.
Outcome(sh, fault) == [sh |-> sh, fault |-> fault]

\* _add without the append to all_containers
_add_no_flat(sh, placed_container) ==
    LET level == placed_container.corner1.height_level IN
    IF level >= sh.levels_nr
    THEN Outcome(sh, "IndexError")
    ELSE Outcome([sh EXCEPT
                    !.occupancy_map = _add_to_map(placed_container, @),
                    !.placed_containers_levels[level + 1] = Append(@, placed_container)],
                 "none")

\* Indexing the map or the list of levels with a level >= levels_nr raises
\* IndexError before anything is assigned.
_add(sh, placed_container) ==
    LET level == placed_container.corner1.height_level IN
    IF level >= sh.levels_nr
    THEN Outcome(sh, "IndexError")
    ELSE Outcome([sh EXCEPT
                    !.occupancy_map = _add_to_map(placed_container, @),
                    !.placed_containers_levels[level + 1] = Append(@, placed_container),
                    !.all_containers = Append(@, placed_container.container)],
                 "none")

\* list.remove raises ValueError when the element is absent; the map has
\* been cleared by then.
_remove(sh, placed_container) ==
    LET level == placed_container.corner1.height_level
        sh1 == [sh EXCEPT !.occupancy_map = _remove_from_map(placed_container, @)]
    IN
    IF level >= sh.levels_nr
    THEN Outcome(sh, "IndexError")
    ELSE IF ~InList(sh.placed_containers_levels[level + 1], placed_container)
    THEN Outcome(sh1, "ValueError")
    ELSE LET sh2 == [sh1 EXCEPT !.placed_containers_levels[level + 1] =
                                    ListRemove(@, placed_container)]
         IN IF ~InList(sh.all_containers, placed_container.container)
            THEN Outcome(sh2, "ValueError")
            ELSE Outcome([sh2 EXCEPT !.all_containers =
                                        ListRemove(@, placed_container.container)],
                         "none")

check_and_add(sh, placed_container) ==
    LET if_can ==
            IF _check_if_inside_ship(sh, placed_container)
            THEN /\ _check_if_unoccupied(placed_container, sh.occupancy_map)
                 /\ _check_if_stable(placed_container, sh.occupancy_map)
                 /\ _check_redundancy(sh, placed_container)
            ELSE FALSE
    IN IF if_can
       THEN [sh |-> _add(sh, placed_container).sh, ret |-> TRUE,
             fault |-> _add(sh, placed_container).fault]
       ELSE [sh |-> sh, ret |-> FALSE, fault |-> "none"]

RECURSIVE CheckAll(_, _, _, _)
\* The nested loops of check_and_join over the levels of the joined shipment
\* and the containers of each level; `items` is that iteration order.  The
\* loops stop at the first container that fails.
CheckAll(sh, items, used_levels_nr, i) ==
    IF i > Len(items)
    THEN [if_can |-> TRUE, placed_containers_to_add |-> << >>]
    ELSE LET placed_container == items[i]
             new_placed_container ==
                 get_shifted_copy(placed_container, 0, 0, used_levels_nr)
             if_can_new ==
                 /\ _check_if_stable(placed_container, sh.occupancy_map)
                 /\ _check_redundancy(sh, placed_container)
         IN IF if_can_new
            THEN LET rest == CheckAll(sh, items, used_levels_nr, i + 1)
                 IN [if_can |-> rest.if_can,
                     placed_containers_to_add |->
                         <<new_placed_container>> \o rest.placed_containers_to_add]
            ELSE [if_can |-> FALSE, placed_containers_to_add |-> << >>]

RECURSIVE AddAll(_, _, _)
\* for placed_container in placed_containers_to_add: self._add(placed_container)
AddAll(sh, items, i) ==
    IF i > Len(items)
    THEN Outcome(sh, "none")
    ELSE LET r == _add(sh, items[i])
         IN IF r.fault # "none" THEN r ELSE AddAll(r.sh, items, i + 1)

RECURSIVE Flatten(_, _)
\* the containers of the levels k.. of a shipment, level by level
Flatten(levels, k) ==
    IF k > Len(levels) THEN << >> ELSE levels[k] \o Flatten(levels, k + 1)

\* check_and_join adding each container as soon as it has passed its checks
check_and_join_eager(self, shipment) ==
    IF self.ship = shipment.ship
    THEN LET used_levels_nr == get_used_levels_nr(self) IN
         IF used_levels_nr + get_used_levels_nr(shipment) <= self.levels_nr
         THEN LET c == CheckAll(self, Flatten(shipment.placed_containers_levels, 1),
                                used_levels_nr, 1)
                  r == AddAll(self, c.placed_containers_to_add, 1)
              IN [sh |-> r.sh, ret |-> c.if_can, fault |-> r.fault]
         ELSE [sh |-> self, ret |-> FALSE, fault |-> "none"]
    ELSE [sh |-> self, ret |-> FALSE, fault |-> "none"]

\* check_and_join without the comparison of the ships
check_and_join_any_ship(self, shipment) ==
    LET used_levels_nr == get_used_levels_nr(self) IN
    IF used_levels_nr + get_used_levels_nr(shipment) <= self.levels_nr
    THEN LET c == CheckAll(self, Flatten(shipment.placed_containers_levels, 1),
                           used_levels_nr, 1)
         IN IF c.if_can
            THEN LET r == AddAll(self, c.placed_containers_to_add, 1)
                 IN [sh |-> r.sh, ret |-> TRUE, fault |-> r.fault]
            ELSE [sh |-> self, ret |-> FALSE, fault |-> "none"]
    ELSE [sh |-> self, ret |-> FALSE, fault |-> "none"]

check_and_join(self, shipment) ==
    IF self.ship = shipment.ship
    THEN LET used_levels_nr == get_used_levels_nr(self) IN
         IF used_levels_nr + get_used_levels_nr(shipment) <= self.levels_nr
         THEN LET c == CheckAll(self, Flatten(shipment.placed_containers_levels, 1),
                                used_levels_nr, 1)
              IN IF c.if_can
                 THEN LET r == AddAll(self, c.placed_containers_to_add, 1)
                      IN [sh |-> r.sh, ret |-> TRUE, fault |-> r.fault]
                 ELSE [sh |-> self, ret |-> FALSE, fault |-> "none"]
         ELSE [sh |-> self, ret |-> FALSE, fault |-> "none"]
    ELSE [sh |-> self, ret |-> FALSE, fault |-> "none"]

\* _get_supported_containers collecting the unstable containers of every
\* level above, not of the next level alone
_get_supported_containers_all_above(sh, placed_container) ==
    IF placed_container.corner1.height_level >= sh.levels_nr - 1
    THEN << >>
    ELSE LET above_containers ==
                 Flatten(sh.placed_containers_levels,
                         placed_container.corner1.height_level + 2)
         IN IF Len(above_containers) = 0
            THEN << >>
            ELSE LET map_to_be == _remove_from_map(placed_container, sh.occupancy_map)
                     Unstable(x) == ~_check_if_stable(x, map_to_be)
                 IN SelectSeq(above_containers, Unstable)

_get_supported_containers(sh, placed_container) ==
    IF placed_container.corner1.height_level >= sh.levels_nr - 1
    THEN << >>
    ELSE LET above_containers ==
                 sh.placed_containers_levels[placed_container.corner1.height_level + 2]
         IN IF Len(above_containers) = 0
            THEN << >>
            ELSE LET map_to_be == _remove_from_map(placed_container, sh.occupancy_map)
                     Unstable(x) == ~_check_if_stable(x, map_to_be)
                 IN SelectSeq(above_containers, Unstable)

\* check_and_remove without the test of the containers the removed one
\* supports
check_and_remove_unsupporting(sh, placed_container) ==
    LET level == placed_container.corner1.height_level IN
    IF level >= sh.levels_nr
    THEN [sh |-> sh, ret |-> FALSE, fault |-> "IndexError"]
    ELSE IF ~InList(sh.placed_containers_levels[level + 1], placed_container)
    THEN [sh |-> sh, ret |-> FALSE, fault |-> "none"]
    ELSE [sh |-> _remove(sh, placed_container).sh, ret |-> TRUE,
          fault |-> _remove(sh, placed_container).fault]

\* placed_containers_levels[level] raises IndexError for level >= levels_nr.
check_and_remove(sh, placed_container) ==
    LET level == placed_container.corner1.height_level IN
    IF level >= sh.levels_nr
    THEN [sh |-> sh, ret |-> FALSE, fault |-> "IndexError"]
    ELSE IF ~InList(sh.placed_containers_levels[level + 1], placed_container)
    THEN [sh |-> sh, ret |-> FALSE, fault |-> "none"]
    ELSE IF Len(_get_supported_containers(sh, placed_container)) = 0
    THEN [sh |-> _remove(sh, placed_container).sh, ret |-> TRUE,
          fault |-> _remove(sh, placed_container).fault]
    ELSE [sh |-> sh, ret |-> FALSE, fault |-> "none"]

\* remove_recursively without the calls for the supported containers
remove_only(sh, placed_container) ==
    LET r == _remove(sh, placed_container)
    IN [sh |-> r.sh, ret |-> r.fault = "none", fault |-> r.fault, depth |-> 1]

RECURSIVE remove_recursively(_, _)
RECURSIVE RemoveAll(_, _, _)
\* for x in supported_containers: self.remove_recursively(x)
\* depth is the deepest nesting of remove_recursively calls below this loop.
RemoveAll(sh, supported_containers, i) ==
    IF i > Len(supported_containers)
    THEN [sh |-> sh, fault |-> "none", depth |-> 0]
    ELSE LET r == remove_recursively(sh, supported_containers[i])
         IN IF r.fault # "none"
            THEN [sh |-> r.sh, fault |-> r.fault, depth |-> r.depth]
            ELSE LET rest == RemoveAll(r.sh, supported_containers, i + 1)
                 IN [sh |-> rest.sh, fault |-> rest.fault,
                     depth |-> IF r.depth > rest.depth THEN r.depth ELSE rest.depth]

\* remove_recursively that removes the supported containers themselves but
\* not the containers these support
remove_recursively_shallow(sh, placed_container) ==
    LET supported_containers == _get_supported_containers(sh, placed_container)
        RECURSIVE RemoveEach(_, _)
        RemoveEach(s, i) ==
            IF i > Len(supported_containers) THEN s
            ELSE RemoveEach(_remove(s, supported_containers[i]).sh, i + 1)
        r == _remove(RemoveEach(sh, 1), placed_container)
    IN [sh |-> r.sh, ret |-> r.fault = "none", fault |-> r.fault, depth |-> 1]

\* ret is the value returned (True) when no exception is raised; depth counts
\* the nested calls, this one included.
remove_recursively(sh, placed_container) ==
    LET supported_containers == _get_supported_containers(sh, placed_container)
        loop == RemoveAll(sh, supported_containers, 1)
    IN IF loop.fault # "none"
       THEN [sh |-> loop.sh, ret |-> FALSE, fault |-> loop.fault, depth |-> loop.depth + 1]
       ELSE LET r == _remove(loop.sh, placed_container)
            IN [sh |-> r.sh, ret |-> r.fault = "none", fault |-> r.fault,
                depth |-> loop.depth + 1]

\* ------------------------------------------------------------- the state
\* ------------------------------------------------------ ShipmentsManager
\* A shipment handed to the manager is an object [oid, type, sh]: oid is its
\* identity (Shipment defines no __eq__, so `in`, != and list.remove compare
\* identities), type the name of its class and sh the Shipment it is.

\* Shipment.get_timestamps_set
get_timestamps_set(self) ==
    {self.all_containers[i].timestamp : i \in 1..Len(self.all_containers)}

\* max() of a non-empty set
Max(S) == CHOOSE x \in S : \A y \in S : y <= x

RECURSIVE AllContainersOf(_, _)
\* containers_list += sh.get_all_containers() for the shipments from the
\* k-th on
AllContainersOf(shipments_list, k) ==
    IF k > Len(shipments_list) THEN <<>>
    ELSE get_all_containers(shipments_list[k].sh)
             \o AllContainersOf(shipments_list, k + 1)

\* get_containers that skips no shipment
shm_get_containers_all(self, skip_first_shipment, skip_last_shipment) ==
    AllContainersOf(self.shipments, 1)

shm_get_containers(self, skip_first_shipment, skip_last_shipment) ==
    LET l1 == IF skip_first_shipment
              THEN SubSeq(self.shipments, 2, Len(self.shipments))
              ELSE self.shipments
        l2 == IF skip_last_shipment THEN SubSeq(l1, 1, Len(l1) - 1) ELSE l1
    IN AllContainersOf(l2, 1)

\* _check_shipment_timestamps with the rule of the first shipment for every
\* shipment
shm_check_shipment_timestamps_upto(self, shipment) ==
    LET timestamps_set == get_timestamps_set(shipment.sh) IN
    IF timestamps_set = {}
    THEN [ret |-> FALSE, fault |-> "ValueError"]
    ELSE [ret |-> Max(timestamps_set) <= self.main_timestamp,
          fault |-> "none"]

\* ShipmentsManager._check_shipment_timestamps; max() of an empty set raises
\* ValueError
shm_check_shipment_timestamps(self, shipment) ==
    LET timestamps_set == get_timestamps_set(shipment.sh) IN
    IF Len(self.shipments) = 0
    THEN IF timestamps_set = {}
         THEN [ret |-> FALSE, fault |-> "ValueError"]
         ELSE [ret |-> Max(timestamps_set) <= self.main_timestamp,
               fault |-> "none"]
    ELSE [ret |-> /\ Cardinality(timestamps_set) = 1
                  /\ self.main_timestamp \in timestamps_set,
          fault |-> "none"]

\* _check_redundancy looking only at the shipments after the first
shm_check_redundancy_skip_first(self, shipment) ==
    LET loaded_containers == shm_get_containers(self, TRUE, FALSE)
        containers == get_all_containers(shipment.sh)
    IN \A i \in 1..Len(containers) : ~InList(loaded_containers, containers[i])

\* ShipmentsManager._check_redundancy
shm_check_redundancy(self, shipment) ==
    LET loaded_containers == shm_get_containers(self, FALSE, FALSE)
        containers == get_all_containers(shipment.sh)
    IN \A i \in 1..Len(containers) : ~InList(loaded_containers, containers[i])

\* the result of a call on the manager: the manager after it, the value
\* returned and the exception raised
ShmOutcome(shm, ret, fault) == [shm |-> shm, ret |-> ret, fault |-> fault]

\* check_and_add inserting the shipment at the front of the list
shm_check_and_add_front(self, shipment) ==
    IF shipment.type = "Shipment"
    THEN LET t == shm_check_shipment_timestamps(self, shipment) IN
         IF t.fault # "none" THEN ShmOutcome(self, FALSE, t.fault)
         ELSE IF t.ret /\ shm_check_redundancy(self, shipment)
              THEN ShmOutcome([self EXCEPT !.shipments = <<shipment>> \o @],
                              TRUE, "none")
              ELSE ShmOutcome(self, FALSE, "none")
    ELSE ShmOutcome(self, FALSE, "none")

\* ShipmentsManager.check_and_add
shm_check_and_add(self, shipment) ==
    IF shipment.type = "Shipment"
    THEN LET t == shm_check_shipment_timestamps(self, shipment) IN
         IF t.fault # "none" THEN ShmOutcome(self, FALSE, t.fault)
         ELSE IF t.ret /\ shm_check_redundancy(self, shipment)
              THEN ShmOutcome([self EXCEPT !.shipments = Append(@, shipment)],
                              TRUE, "none")
              ELSE ShmOutcome(self, FALSE, "none")
    ELSE ShmOutcome(self, FALSE, "none")

\* check_and_remove of any shipment of the list
shm_check_and_remove_any(self, shipment) ==
    IF InList(self.shipments, shipment)
    THEN ShmOutcome([self EXCEPT !.shipments = ListRemove(@, shipment)],
                    TRUE, "none")
    ELSE ShmOutcome(self, FALSE, "none")

\* ShipmentsManager.check_and_remove
shm_check_and_remove(self, shipment) ==
    LET if_can == /\ InList(self.shipments, shipment)
                  /\ \/ Len(self.shipments) = 1
                     \/ shipment # self.shipments[1]
    IN IF if_can
       THEN ShmOutcome([self EXCEPT !.shipments = ListRemove(@, shipment)],
                       TRUE, "none")
       ELSE ShmOutcome(self, FALSE, "none")

\* ShipmentsManager.__init__
ShipmentsManager(main_timestamp) ==
    [main_timestamp |-> main_timestamp, shipments |-> <<>>]

\* TimestampsManager.__init__
TimestampsManager == [min |-> -1, max |-> -1, timestamps |-> <<>>]

\* ----------------------------------------------------- TimestampsManager
\* An argument of a call is [type, value]: the name of its Python type and
\* its numeric value.  min, max and the elements of the SortedList are kept
\* by value (in Python 3.0 == 3, so a float is found in the list by value).

\* SortedList.add putting the value at the end
SortedAdd_at_end(list, x) == Append(list, x)

\* SortedList.add: the list stays sorted
SortedAdd(list, x) ==
    LET n == Cardinality({i \in 1..Len(list) : list[i] <= x})
    IN SubSeq(list, 1, n) \o <<x>> \o SubSeq(list, n + 1, Len(list))

\* SortedList.index of an element of the list
Index(list, x) == CHOOSE i \in 1..Len(list) : list[i] = x

Min2(a, b) == IF a <= b THEN a ELSE b
Max2(a, b) == IF a >= b THEN a ELSE b

\* the result of a call on the timestamps manager
TmOutcome(tm, ret, fault) == [tm |-> tm, ret |-> ret, fault |-> fault]

get_min(self) == self.min

get_max(self) == self.max

\* _set_min_directly without the comparison with max
_set_min_directly_unguarded(self, x) == [self EXCEPT !.min = x]

\* TimestampsManager._set_min_directly
_set_min_directly(self, x) ==
    IF x <= self.max THEN [self EXCEPT !.min = x] ELSE self

\* TimestampsManager._set_max_directly
_set_max_directly(self, x) ==
    IF x >= self.min THEN [self EXCEPT !.max = x] ELSE self

\* set_min without the membership test
set_min_any(self, x) == TmOutcome(_set_min_directly(self, x.value), "None", "none")

\* TimestampsManager.set_min
set_min(self, x) ==
    IF InList(self.timestamps, x.value)
    THEN TmOutcome(_set_min_directly(self, x.value), "None", "none")
    ELSE TmOutcome(self, "None", "none")

\* set_max without the comparison with min
set_max_unguarded(self, x) ==
    IF InList(self.timestamps, x.value)
    THEN TmOutcome([self EXCEPT !.max = x.value], "None", "none")
    ELSE TmOutcome(self, "None", "none")

\* TimestampsManager.set_max
set_max(self, x) ==
    IF InList(self.timestamps, x.value)
    THEN TmOutcome(_set_max_directly(self, x.value), "None", "none")
    ELSE TmOutcome(self, "None", "none")

\* increase_min returning -1 when min has stayed
increase_min_sentinel(self) ==
    IF Len(self.timestamps) = 0 THEN TmOutcome(self, -1, "IndexError")
    ELSE IF self.min < self.timestamps[Len(self.timestamps)]
    THEN IF ~InList(self.timestamps, self.min)
         THEN TmOutcome(self, -1, "ValueError")
         ELSE LET ind == Index(self.timestamps, self.min)
                  tm == _set_min_directly(self, self.timestamps[ind + 1])
              IN TmOutcome(tm, IF tm = self THEN -1 ELSE get_min(tm), "none")
    ELSE TmOutcome(self, -1, "none")

\* TimestampsManager.increase_min; timestamps[-1] of an empty list raises
\* IndexError, index() of a value that is not in the list ValueError
increase_min(self) ==
    IF Len(self.timestamps) = 0 THEN TmOutcome(self, -1, "IndexError")
    ELSE IF self.min < self.timestamps[Len(self.timestamps)]
    THEN IF ~InList(self.timestamps, self.min)
         THEN TmOutcome(self, -1, "ValueError")
         ELSE LET ind == Index(self.timestamps, self.min)
                  tm == _set_min_directly(self, self.timestamps[ind + 1])
              IN TmOutcome(tm, get_min(tm), "none")
    ELSE TmOutcome(self, -1, "none")

\* increase_max moving max to the last timestamp
increase_max_to_last(self) ==
    IF Len(self.timestamps) = 0 THEN TmOutcome(self, -1, "IndexError")
    ELSE IF self.max < self.timestamps[Len(self.timestamps)]
    THEN IF ~InList(self.timestamps, self.max)
         THEN TmOutcome(self, -1, "ValueError")
         ELSE LET tm == _set_max_directly(self, self.timestamps[Len(self.timestamps)])
              IN TmOutcome(tm, get_max(tm), "none")
    ELSE TmOutcome(self, -1, "none")

\* TimestampsManager.increase_max
increase_max(self) ==
    IF Len(self.timestamps) = 0 THEN TmOutcome(self, -1, "IndexError")
    ELSE IF self.max < self.timestamps[Len(self.timestamps)]
    THEN IF ~InList(self.timestamps, self.max)
         THEN TmOutcome(self, -1, "ValueError")
         ELSE LET ind == Index(self.timestamps, self.max)
                  tm == _set_max_directly(self, self.timestamps[ind + 1])
              IN TmOutcome(tm, get_max(tm), "none")
    ELSE TmOutcome(self, -1, "none")

\* add moving only the min cursor after the first timestamp
tm_add_min_only(self, x) ==
    IF x.type = "int" /\ x.value >= 0
    THEN IF Len(self.timestamps) = 0
         THEN TmOutcome([min |-> x.value, max |-> x.value,
                         timestamps |-> SortedAdd(self.timestamps, x.value)],
                        "None", "none")
         ELSE IF ~InList(self.timestamps, x.value)
         THEN TmOutcome([min |-> Min2(self.min, x.value),
                         max |-> self.max,
                         timestamps |-> SortedAdd(self.timestamps, x.value)],
                        "None", "none")
         ELSE TmOutcome(self, "None", "none")
    ELSE TmOutcome(self, "None", "none")

\* add making every accepted timestamp the max
tm_add_max_is_newest(self, x) ==
    IF x.type = "int" /\ x.value >= 0
    THEN IF Len(self.timestamps) = 0
         THEN TmOutcome([min |-> x.value, max |-> x.value,
                         timestamps |-> SortedAdd(self.timestamps, x.value)],
                        "None", "none")
         ELSE IF ~InList(self.timestamps, x.value)
         THEN TmOutcome([min |-> Min2(self.min, x.value),
                         max |-> x.value,
                         timestamps |-> SortedAdd(self.timestamps, x.value)],
                        "None", "none")
         ELSE TmOutcome(self, "None", "none")
    ELSE TmOutcome(self, "None", "none")

\* TimestampsManager.add
tm_add(self, x) ==
    IF x.type = "int" /\ x.value >= 0
    THEN IF Len(self.timestamps) = 0
         THEN TmOutcome([min |-> x.value, max |-> x.value,
                         timestamps |-> SortedAdd(self.timestamps, x.value)],
                        "None", "none")
         ELSE IF ~InList(self.timestamps, x.value)
         THEN TmOutcome([min |-> Min2(self.min, x.value),
                         max |-> Max2(self.max, x.value),
                         timestamps |-> SortedAdd(self.timestamps, x.value)],
                        "None", "none")
         ELSE TmOutcome(self, "None", "none")
    ELSE TmOutcome(self, "None", "none")

\* TimestampsManager.reset
reset(self) == TmOutcome(TimestampsManager, "None", "none")


\* ----------------------------------------------------- ContainersManager
\* A line of the input file is [kind, ints, cid, width, height, length,
\* timestamp]: kind is its first character, ints tells whether the rest splits
\* into five integers, and the other fields are those integers.

\* what from_string and add return for a line that gives no container
NoContainer ==
    [cid |-> 0, length |-> 0, width |-> 0, height |-> 0, timestamp |-> 0]

\* Container.from_string: None unless the line starts with c and holds five
\* integers
Container_from_string(text) ==
    IF text.kind = "c" /\ text.ints
    THEN [none |-> FALSE,
          container |-> [cid |-> text.cid, length |-> text.length,
                         width |-> text.width, height |-> text.height,
                         timestamp |-> text.timestamp]]
    ELSE [none |-> TRUE, container |-> NoContainer]

\* ContainersManager.__init__ with the default ranges; const_h = 0 stands for
\* None (an accepted height is at least min_height)
ContainersManager ==
    [waiting_containers |-> <<>>, sent_containers |-> <<>>, const_h |-> 0,
     min_length |-> 1, max_length |-> 40,
     min_width |-> 1, max_width |-> 40,
     min_height |-> 1, max_height |-> 40]

\* the cids of a list of containers
Cids(list) == {list[i].cid : i \in 1..Len(list)}

\* add without the comparison of the timestamp with min_timestamp
cm_add_any_timestamp(self, x, min_timestamp) ==
    LET c == Container_from_string(x)
        container == c.container
        check_ok ==
            /\ self.min_length <= container.length
            /\ container.length <= self.max_length
            /\ self.min_width <= container.width
            /\ container.width <= self.max_width
            /\ self.min_height <= container.height
            /\ container.height <= self.max_height
            /\ container.cid \notin
                  Cids(self.waiting_containers \o self.sent_containers)
        rejected == [cm |-> self, none |-> TRUE, container |-> NoContainer]
    IN IF c.none \/ ~check_ok THEN rejected
       ELSE IF self.const_h = 0
       THEN [cm |-> [self EXCEPT !.const_h = container.height,
                                 !.waiting_containers = Append(@, container)],
             none |-> FALSE, container |-> container]
       ELSE IF container.height = self.const_h
       THEN [cm |-> [self EXCEPT !.waiting_containers = Append(@, container)],
             none |-> FALSE, container |-> container]
       ELSE rejected

\* ContainersManager.add; min_timestamp is always an int here (it is get_max()
\* of the timestamps manager)
cm_add(self, x, min_timestamp) ==
    LET c == Container_from_string(x)
        container == c.container
        check_ok ==
            /\ container.timestamp >= min_timestamp
            /\ self.min_length <= container.length
            /\ container.length <= self.max_length
            /\ self.min_width <= container.width
            /\ container.width <= self.max_width
            /\ self.min_height <= container.height
            /\ container.height <= self.max_height
            /\ container.cid \notin
                  Cids(self.waiting_containers \o self.sent_containers)
        rejected == [cm |-> self, none |-> TRUE, container |-> NoContainer]
    IN IF c.none \/ ~check_ok THEN rejected
       ELSE IF self.const_h = 0
       THEN [cm |-> [self EXCEPT !.const_h = container.height,
                                 !.waiting_containers = Append(@, container)],
             none |-> FALSE, container |-> container]
       ELSE IF container.height = self.const_h
       THEN [cm |-> [self EXCEPT !.waiting_containers = Append(@, container)],
             none |-> FALSE, container |-> container]
       ELSE rejected

RECURSIVE send_keeps_waiting(_, _, _)
\* send that appends to the sent containers and leaves the waiting ones
send_keeps_waiting(self, containers, k) ==
    IF k > Len(containers) THEN self
    ELSE IF InList(self.waiting_containers, containers[k])
    THEN send_keeps_waiting(
             [self EXCEPT !.sent_containers = Append(@, containers[k])],
             containers, k + 1)
    ELSE send_keeps_waiting(self, containers, k + 1)

RECURSIVE send(_, _, _)
\* ContainersManager.send, from the k-th container of the list on
send(self, containers, k) ==
    IF k > Len(containers) THEN self
    ELSE IF InList(self.waiting_containers, containers[k])
    THEN send([self EXCEPT
                  !.waiting_containers = ListRemove(@, containers[k]),
                  !.sent_containers = Append(@, containers[k])],
              containers, k + 1)
    ELSE send(self, containers, k + 1)

RECURSIVE WaitingUpTo(_, _, _)
\* the loop of get_containers from the k-th waiting container on: it breaks
\* at the first container above max_timestamp
WaitingUpTo(waiting_containers, max_timestamp, k) ==
    IF k > Len(waiting_containers) THEN <<>>
    ELSE IF waiting_containers[k].timestamp <= max_timestamp
    THEN <<waiting_containers[k]>>
            \o WaitingUpTo(waiting_containers, max_timestamp, k + 1)
    ELSE <<>>

\* ContainersManager.get_containers
cm_get_containers(self, max_timestamp) ==
    WaitingUpTo(self.waiting_containers, max_timestamp, 1)

\* ---------------------------------------------------------- ShipsManager
\* ShipsManager.__init__ with the default max_available
ShipsManager == [max_available |-> 3, ships |-> <<>>, available |-> <<>>]

\* ShipsManager.__init__(max_available=...), with the default ranges
ShipsManager_init(max_available) ==
    [max_available |-> max_available, ships |-> <<>>, available |-> <<>>,
     min_length |-> 50, max_length |-> 100,
     min_width |-> 50, max_width |-> 100,
     min_height |-> 50, max_height |-> 100]

\* Ship.from_string: None unless the line starts with s and holds four
\* integers; the ship has no timestamp yet
Ship_from_string(text) ==
    IF text.kind = "s" /\ text.ints
    THEN [none |-> FALSE,
          ship |-> [sid |-> text.sid, length |-> text.length,
                    width |-> text.width, height |-> text.height,
                    timestamp |-> "None"]]
    ELSE [none |-> TRUE, ship |-> [sid |-> 0]]

\* the sids of a list of ships
Sids(list) == {list[i].sid : i \in 1..Len(list)}

\* ShipsManager.add
sm_add(self, x, added_timestamp) ==
    IF added_timestamp.type # "int"
    THEN [sm |-> self, none |-> TRUE]
    ELSE LET s == Ship_from_string(x)
             ship == s.ship
             check_ok ==
                 /\ self.min_length <= ship.length
                 /\ ship.length <= self.max_length
                 /\ self.min_width <= ship.width
                 /\ ship.width <= self.max_width
                 /\ self.min_height <= ship.height
                 /\ ship.height <= self.max_height
                 /\ ship.sid \notin Sids(self.ships)
         IN IF ~s.none /\ check_ok
            THEN [sm |-> [self EXCEPT !.ships =
                             Append(@, [ship EXCEPT !.timestamp =
                                                      added_timestamp.value])],
                  none |-> FALSE]
            ELSE [sm |-> self, none |-> TRUE]

RECURSIVE AvailableFrom(_, _, _, _)
\* the loop of get_available over reversed(self.ships), from the k-th ship
\* downwards
AvailableFrom(self, max_timestamp, k, available) ==
    IF k < 1 THEN available
    ELSE IF self.ships[k].timestamp <= max_timestamp
    THEN IF Len(available) + 1 >= self.max_available
         THEN Append(available, self.ships[k])
         ELSE AvailableFrom(self, max_timestamp, k - 1,
                            Append(available, self.ships[k]))
    ELSE AvailableFrom(self, max_timestamp, k - 1, available)

\* ShipsManager.get_available
get_available(self, max_timestamp) ==
    LET available == AvailableFrom(self, max_timestamp, Len(self.ships), <<>>)
    IN [sm |-> [self EXCEPT !.available = available], ret |-> available]

VARIABLES
    shipment,   \* the Shipment object the calls are made on
    last,       \* the last call: the operation, its arguments and result,
                \* and the object it was made on as it was before the call
    shipments_manager,   \* the ShipmentsManager object
    timestamps_manager,  \* the TimestampsManager object
    containers_manager,  \* the ContainersManager object
    ships_manager,       \* the ShipsManager object
    operator,            \* the Operator: where its run is and the local
                         \* variables of optimize
    optimizer_calls      \* the arguments of the calls of optimizer.optimize
                         \* made so far

\* the objects of a run of the Operator besides the timestamps manager
run == <<containers_manager, ships_manager, operator, optimizer_calls>>

vars == <<shipment, last, shipments_manager, timestamps_manager, run>>

\* the objects no call of the specification is made on
others == <<shipments_manager, timestamps_manager, run>>

\* The arguments of check_and_add / check_and_remove: every container at every
\* corner of the ship and at every level and one level above the last.
PlacedContainers ==
    {PlacedContainer(c, CornerPosition(l, w, h)) :
        c \in Containers,
        l \in 0..(ShipLength - 1), w \in 0..(ShipWidth - 1),
        h \in 0..(ShipHeight \div ContainersHeight)}

\* the placed_container of a call that takes none
NoPlacedContainer == PlacedContainer(Container(NumContainers + 1), CornerPosition(0, 0, 0))

RECURSIVE Loaded(_, _)
\* the shipments obtained from a new Shipment of a ship by at most n calls of
\* check_and_add
Loaded(ship, n) ==
    IF n = 0 THEN {Shipment(ship, ContainersHeight)}
    ELSE LET before == Loaded(ship, n - 1)
         IN before \cup {check_and_add(sh, pc).sh : sh \in before, pc \in PlacedContainers}

\* The shipments passed to check_and_join: a new Shipment of either ship on
\* which check_and_add has been called at most MaxJoined times.
JoinedShipments == UNION {Loaded(ship, MaxJoined) : ship \in Ships}

\* the containers placed in a shipment
Placed(sh) ==
    UNION {{sh.placed_containers_levels[k][i] :
                i \in 1..Len(sh.placed_containers_levels[k])} :
           k \in 1..sh.levels_nr}

\* the other shipment of a call that takes none
NoShipment == Shipment(Ship(1), ContainersHeight)

\* an object that is no Shipment
NoObject == [oid |-> 0, type |-> "NoneType", sh |-> NoShipment]

\* Operator.__init__ and the local variables of optimize before they are
\* assigned: pc is "enter" while the input file is read, "loop" at the head of
\* the while loop, "advance" before increase_max, "done" after the loop and
\* "fault" after an exception; exit tells the break the loop was left by, at
\* the expression that raised the exception.
Operator ==
    [pc |-> "enter", exit |-> "none", fault |-> "none",
     at |-> "none", max_timestamp |-> -1, uncompleted_shipment |-> NoObject,
     containers |-> <<>>, ships |-> <<>>,
     shipment_manager |-> ShipmentsManager(-1)]

\* the Operator and its managers as constructed
NewRun ==
    /\ containers_manager = ContainersManager
    /\ ships_manager = ShipsManager
    /\ operator = Operator
    /\ optimizer_calls = <<>>

Call(op, pc, other, r, depth) ==
    [op |-> op, placed_container |-> pc, other |-> other,
     ret |-> r.ret, fault |-> r.fault, depth |-> depth,
     pre |-> shipment]

Init ==
    /\ shipment = Shipment(Ship(1), ContainersHeight)
    /\ last = [op |-> "init", placed_container |-> NoPlacedContainer,
               other |-> NoShipment,
               ret |-> FALSE, fault |-> "none", depth |-> 0,
               pre |-> Shipment(Ship(1), ContainersHeight)]
    /\ shipments_manager = ShipmentsManager(40)
    /\ timestamps_manager = TimestampsManager
    /\ NewRun

\* A call that left the shipment as it was is a leaf of the model: the calls
\* that can follow it are the calls that can follow the state it was made in,
\* and they are taken there.  A remove_recursively of a container that is
\* not placed ends with an exception of list.remove, which no caller
\* catches: no call follows it.
Fresh ==
    \/ last.op = "init"
    \/ last.pre # shipment /\ last.op # "remove_recursively_unplaced"

CheckAndAdd(pc) ==
    LET r == check_and_add(shipment, pc) IN
    /\ Fresh
    /\ shipment' = r.sh
    /\ last' = Call("check_and_add", pc, NoShipment, r, 0)
    /\ UNCHANGED others

CheckAndRemove(pc) ==
    LET r == check_and_remove(shipment, pc) IN
    /\ Fresh
    /\ shipment' = r.sh
    /\ last' = Call("check_and_remove", pc, NoShipment, r, 0)
    /\ UNCHANGED others

\* remove_recursively of a container placed in the shipment
RemoveRecursively(pc) ==
    /\ Fresh
    /\ pc \in Placed(shipment)
    /\ LET r == remove_recursively(shipment, pc) IN
       /\ shipment' = r.sh
       /\ last' = Call("remove_recursively", pc, NoShipment, r, r.depth)
       /\ UNCHANGED others

\* check_and_join of another shipment
CheckAndJoin(other) ==
    LET r == check_and_join(shipment, other) IN
    /\ Fresh
    /\ shipment' = r.sh
    /\ last' = Call("check_and_join", NoPlacedContainer, other, r, 0)
    /\ UNCHANGED others

\* sh.check_and_join(sh)
CheckAndJoinSelf ==
    LET r == check_and_join(shipment, shipment) IN
    /\ Fresh
    /\ shipment' = r.sh
    /\ last' = Call("check_and_join_self", NoPlacedContainer, shipment, r, 0)
    /\ UNCHANGED others

Next ==
    \/ \E pc \in PlacedContainers : CheckAndAdd(pc)
    \/ \E pc \in PlacedContainers : CheckAndRemove(pc)
    \/ \E pc \in PlacedContainers : RemoveRecursively(pc)
    \/ \E other \in JoinedShipments : CheckAndJoin(other)
    \/ CheckAndJoinSelf

Spec == Init /\ [][Next]_vars

\* remove_recursively of a container that is not placed in the shipment
RemoveRecursivelyUnplaced(pc) ==
    /\ Fresh
    /\ pc \notin Placed(shipment)
    /\ LET r == remove_recursively(shipment, pc) IN
       /\ shipment' = r.sh
       /\ last' = Call("remove_recursively_unplaced", pc, NoShipment, r,
                       r.depth)
       /\ UNCHANGED others

\* the calls of Spec and remove_recursively of any container
NextMisuse ==
    \/ \E pc \in PlacedContainers : CheckAndAdd(pc)
    \/ \E pc \in PlacedContainers : CheckAndRemove(pc)
    \/ \E pc \in PlacedContainers : RemoveRecursively(pc)
    \/ \E pc \in PlacedContainers : RemoveRecursivelyUnplaced(pc)
    \/ \E other \in JoinedShipments : CheckAndJoin(other)
    \/ CheckAndJoinSelf

SpecMisuse == Init /\ [][NextMisuse]_vars

\* ----------------------------------------- calls on the ShipmentsManager

\* the main timestamps the manager is constructed with (test2 uses 40)
MainTimestamps == 39..41

RECURSIVE Packed(_, _, _)
\* A new Shipment on which check_and_add is called for the containers cids[k],
\* cids[k + 1], ... in a row of level 0: the i-th at length i - 1, width 0
\* (as test2 fills its shipments).
Packed(sh, cids, k) ==
    IF k > Len(cids) THEN sh
    ELSE Packed(check_and_add(sh, PlacedContainer(Container(cids[k]),
                                     CornerPosition(k - 1, 0, 0))).sh,
                cids, k + 1)

\* the sequences of at most MaxOffered different cids
CidLists ==
    UNION {{cids \in [1..n -> 1..NumOfferedContainers] :
                \A i, j \in 1..n : i # j => cids[i] # cids[j]} :
           n \in 0..MaxOffered}

\* The objects passed to the manager: NumObjects Shipment objects for every
\* packed shipment, and an object that is no Shipment.
OfferedShipments ==
    {[oid |-> oid, type |-> "Shipment",
      sh |-> Packed(Shipment(Ship(1), ContainersHeight), cids, 1)] :
        oid \in 1..NumObjects, cids \in CidLists}
    \cup {NoObject}

ShmCall(op, obj, r) ==
    [op |-> op, shipment |-> obj, ret |-> r.ret, fault |-> r.fault,
     pre |-> shipments_manager]

InitRegistry ==
    /\ shipments_manager \in {ShipmentsManager(t) : t \in MainTimestamps}
    /\ last = [op |-> "init", shipment |-> NoObject, ret |-> FALSE,
               fault |-> "none", pre |-> shipments_manager]
    /\ shipment = Shipment(Ship(1), ContainersHeight)
    /\ timestamps_manager = TimestampsManager
    /\ NewRun

\* A call that left the manager as it was is a leaf, as for the shipment.
FreshRegistry == last.op = "init" \/ last.pre # shipments_manager

ShmCheckAndAdd(obj) ==
    LET r == shm_check_and_add(shipments_manager, obj) IN
    /\ FreshRegistry
    /\ shipments_manager' = r.shm
    /\ last' = ShmCall("shm_check_and_add", obj, r)
    /\ UNCHANGED <<shipment, timestamps_manager, run>>

ShmCheckAndRemove(obj) ==
    LET r == shm_check_and_remove(shipments_manager, obj) IN
    /\ FreshRegistry
    /\ shipments_manager' = r.shm
    /\ last' = ShmCall("shm_check_and_remove", obj, r)
    /\ UNCHANGED <<shipment, timestamps_manager, run>>

NextRegistry ==
    \/ \E obj \in OfferedShipments : ShmCheckAndAdd(obj)
    \/ \E obj \in OfferedShipments : ShmCheckAndRemove(obj)

SpecRegistry == InitRegistry /\ [][NextRegistry]_vars

\* ---------------------------------------- calls on the TimestampsManager

RECURSIVE AddEach(_, _, _)
\* tm.add(xs[k]); tm.add(xs[k + 1]); ... as test() calls it
AddEach(tm, xs, k) ==
    IF k > Len(xs) THEN tm
    ELSE AddEach(tm_add(tm, [type |-> "int", value |-> xs[k]]).tm, xs, k + 1)

\* the arguments of add, set_min and set_max
TimestampArgs ==
    [type : {"int", "float"}, value : (-1)..MaxTimestamp]

\* the argument of a call that takes none
NoArg == [type |-> "NoneType", value |-> -1]

TmCall(op, x, r) ==
    [op |-> op, x |-> x, ret |-> r.ret, fault |-> r.fault,
     pre |-> timestamps_manager]

InitWindow ==
    /\ timestamps_manager = TimestampsManager
    /\ last = [op |-> "init", x |-> NoArg, ret |-> "None", fault |-> "none",
               pre |-> TimestampsManager]
    /\ shipment = Shipment(Ship(1), ContainersHeight)
    /\ shipments_manager = ShipmentsManager(40)
    /\ NewRun

Add(x) ==
    LET r == tm_add(timestamps_manager, x) IN
    /\ timestamps_manager' = r.tm
    /\ last' = TmCall("add", x, r)
    /\ UNCHANGED <<shipment, shipments_manager, run>>

SetMin(x) ==
    LET r == set_min(timestamps_manager, x) IN
    /\ timestamps_manager' = r.tm
    /\ last' = TmCall("set_min", x, r)
    /\ UNCHANGED <<shipment, shipments_manager, run>>

SetMax(x) ==
    LET r == set_max(timestamps_manager, x) IN
    /\ timestamps_manager' = r.tm
    /\ last' = TmCall("set_max", x, r)
    /\ UNCHANGED <<shipment, shipments_manager, run>>

IncreaseMin ==
    LET r == increase_min(timestamps_manager) IN
    /\ timestamps_manager' = r.tm
    /\ last' = TmCall("increase_min", NoArg, r)
    /\ UNCHANGED <<shipment, shipments_manager, run>>

IncreaseMax ==
    LET r == increase_max(timestamps_manager) IN
    /\ timestamps_manager' = r.tm
    /\ last' = TmCall("increase_max", NoArg, r)
    /\ UNCHANGED <<shipment, shipments_manager, run>>

Reset ==
    LET r == reset(timestamps_manager) IN
    /\ timestamps_manager' = r.tm
    /\ last' = TmCall("reset", NoArg, r)
    /\ UNCHANGED <<shipment, shipments_manager, run>>

NextWindow ==
    \/ \E x \in TimestampArgs : Add(x)
    \/ \E x \in TimestampArgs : SetMin(x)
    \/ \E x \in TimestampArgs : SetMax(x)
    \/ IncreaseMin
    \/ IncreaseMax
    \/ Reset

SpecWindow == InitWindow /\ [][NextWindow]_vars

\* --------------------------------------------- the calls on a ShipsManager

\* the ship lines offered to add: correct ships, a line that is no ship line,
\* a line without four integers, and ships outside the ranges
ShipLines ==
    [kind : {"s"}, ints : {TRUE}, sid : 1..NumShips, width : {51},
     height : {52}, length : {52}]
    \cup {[kind |-> "c", ints |-> TRUE, sid |-> 1, width |-> 51,
           height |-> 52, length |-> 52],
          [kind |-> "s", ints |-> FALSE, sid |-> 1, width |-> 51,
           height |-> 52, length |-> 52],
          [kind |-> "s", ints |-> TRUE, sid |-> 1, width |-> 51,
           height |-> 52, length |-> 49],
          [kind |-> "s", ints |-> TRUE, sid |-> 1, width |-> 101,
           height |-> 52, length |-> 52]}

\* the timestamps given to add and to get_available
ShipTimestampArgs ==
    [type : {"int"}, value : 0..MaxShipTimestamp]
    \cup {[type |-> "float", value |-> 0]}

InitShips ==
    /\ ships_manager \in {ShipsManager_init(m) : m \in 0..MaxCapacity}
    /\ last = [op |-> "init"]
    /\ shipment = Shipment(Ship(1), ContainersHeight)
    /\ shipments_manager = ShipmentsManager(40)
    /\ timestamps_manager = TimestampsManager
    /\ containers_manager = ContainersManager
    /\ operator = Operator
    /\ optimizer_calls = <<>>

ShipsAdd(x, added_timestamp) ==
    LET r == sm_add(ships_manager, x, added_timestamp) IN
    /\ ships_manager' = r.sm
    /\ last' = [op |-> "add", x |-> x, added_timestamp |-> added_timestamp,
                none |-> r.none, pre |-> ships_manager]
    /\ UNCHANGED <<shipment, shipments_manager, timestamps_manager,
                   containers_manager, operator, optimizer_calls>>

GetAvailable(max_timestamp) ==
    LET r == get_available(ships_manager, max_timestamp) IN
    /\ ships_manager' = r.sm
    /\ last' = [op |-> "get_available", max_timestamp |-> max_timestamp,
                ret |-> r.ret, pre |-> ships_manager]
    /\ UNCHANGED <<shipment, shipments_manager, timestamps_manager,
                   containers_manager, operator, optimizer_calls>>

NextShips ==
    \/ \E x \in ShipLines, t \in ShipTimestampArgs : ShipsAdd(x, t)
    \/ \E t \in -1..MaxShipTimestamp : GetAvailable(t)

SpecShips == InitShips /\ [][NextShips]_vars

\* ------------------------------------------------ a run of the Operator
\* Operator.run: enter_data_from_file, then optimize.

\* The lines of the input file: a container line for every cid and timestamp,
\* 1 x 1 and of the common height, and a line that holds no integers, one of
\* a container that is too long and one of another height.
ContainerLines ==
    {[kind |-> "c", ints |-> TRUE, cid |-> cid, width |-> 1,
      height |-> ContainersHeight, length |-> 1, timestamp |-> t] :
        cid \in 1..NumRunContainers, t \in (-2)..MaxRunTimestamp}
    \cup {[kind |-> "c", ints |-> FALSE, cid |-> 1, width |-> 1,
           height |-> ContainersHeight, length |-> 1, timestamp |-> 0],
          [kind |-> "c", ints |-> TRUE, cid |-> 1, width |-> 1,
           height |-> ContainersHeight, length |-> 41, timestamp |-> 0],
          [kind |-> "c", ints |-> TRUE, cid |-> 1, width |-> 1,
           height |-> ContainersHeight + 1, length |-> 1, timestamp |-> 0]}

RECURSIVE PackedContainers(_, _, _)
\* A shipment on which check_and_add is called for the containers of a list
\* from the k-th on, in a row of level 0.
PackedContainers(sh, containers, k) ==
    IF k > Len(containers) THEN sh
    ELSE PackedContainers(
             check_and_add(sh, PlacedContainer(containers[k],
                                   CornerPosition(k - 1, 0, 0))).sh,
             containers, k + 1)

\* the sublists of a list of containers with at most MaxOffered containers,
\* the empty one excluded
Loads(containers) ==
    {SelectSeq(containers, LAMBDA c : c.cid \in ids) :
        ids \in {i \in SUBSET Cids(containers) :
                    Cardinality(i) \in 1..MaxOffered}}

RECURSIVE OfferAll(_, _, _, _)
\* check_and_add of the shipments packed from loads[k], loads[k + 1], ... on a
\* ShipmentsManager; a shipment it refuses is left out
OfferAll(shm, loads, container_height, k) ==
    IF k > Len(loads) THEN shm
    ELSE OfferAll(
             shm_check_and_add(shm,
                 [oid |-> k, type |-> "Shipment",
                  sh |-> PackedContainers(Shipment(Ship(1), container_height),
                                          loads[k], 1)]).shm,
             loads, container_height, k + 1)

\* What an optimizer that keeps the contract of optimize can return for a
\* batch: a ShipmentsManager of the batch timestamp holding at most
\* MaxRunShipments shipments of containers of the batch.
Registries(containers, timestamp, container_height) ==
    {OfferAll(ShipmentsManager(timestamp), loads, container_height, 1) :
        loads \in UNION {[1..n -> Loads(containers)] : n \in 0..MaxRunShipments}}

\* min() of the timestamps of a non-empty list of containers
MinTimestamp(containers) ==
    CHOOSE t \in {containers[i].timestamp : i \in 1..Len(containers)} :
        \A i \in 1..Len(containers) : t <= containers[i].timestamp

InitRun ==
    /\ NewRun
    /\ timestamps_manager = TimestampsManager
    /\ last = [op |-> "init"]
    /\ shipment = Shipment(Ship(1), ContainersHeight)
    /\ shipments_manager = ShipmentsManager(40)

\* enter_data_from_file, a line starting with c (lines 36-41)
EnterContainer(line) ==
    LET latest_timestamp == get_max(timestamps_manager)
        r == cm_add(containers_manager, line, latest_timestamp)
    IN /\ operator.pc = "enter"
       /\ containers_manager' = r.cm
       /\ timestamps_manager' =
             IF r.none THEN timestamps_manager
             ELSE tm_add(timestamps_manager,
                         [type |-> "int", value |-> r.container.timestamp]).tm
       /\ last' = [op |-> "enter_container", line |-> line, none |-> r.none,
                   latest_timestamp |-> latest_timestamp]
       /\ UNCHANGED <<shipment, shipments_manager, ships_manager, operator,
                      optimizer_calls>>

\* enter_data_from_file, a line starting with s (lines 32-35):
\* ships_manager.add has no parameter named timestamp, the call raises
\* TypeError
EnterShip ==
    /\ operator.pc = "enter"
    /\ operator' = [operator EXCEPT !.pc = "fault", !.fault = "TypeError",
                                    !.at = "ships_manager.add"]
    /\ last' = [op |-> "enter_ship"]
    /\ UNCHANGED <<shipment, shipments_manager, timestamps_manager,
                   containers_manager, ships_manager, optimizer_calls>>

\* optimize up to the while loop (lines 48-52)
StartOptimize ==
    LET tm == set_max(timestamps_manager,
                      [type |-> "int", value |-> get_min(timestamps_manager)]).tm
    IN /\ operator.pc = "enter"
       /\ timestamps_manager' = tm
       /\ operator' = [operator EXCEPT !.pc = "loop",
                                       !.max_timestamp = get_max(tm),
                                       !.uncompleted_shipment = NoObject]
       /\ last' = [op |-> "start_optimize"]
       /\ UNCHANGED <<shipment, shipments_manager, containers_manager,
                      ships_manager, optimizer_calls>>

\* the loop with no container to send (lines 54, 83-84)
NoContainers ==
    LET containers == cm_get_containers(containers_manager,
                                        operator.max_timestamp)
    IN /\ operator.pc = "loop"
       /\ Len(containers) = 0
       /\ operator' = [operator EXCEPT !.pc = "done", !.exit = "no_containers",
                                       !.containers = containers]
       /\ last' = [op |-> "no_containers"]
       /\ UNCHANGED <<shipment, shipments_manager, timestamps_manager,
                      containers_manager, ships_manager, optimizer_calls>>

\* The timestamps manager and the ships manager after lines 56-61 for a batch
\* of containers, and the record of the optimizer call: its arguments, the
\* shipments of the ShipmentsManager it returned (stub: it returned {}) and
\* the waiting containers at the time of the call.
Prepared(containers, returned, stub) ==
    LET tm == set_min(timestamps_manager,
                      [type |-> "int", value |-> MinTimestamp(containers)]).tm
        a == get_available(ships_manager, get_min(tm))
    IN [tm |-> tm, sm |-> a.sm, ships |-> a.ret,
        call |-> [ships |-> a.ret, containers |-> containers,
                  timestamp |-> operator.max_timestamp,
                  container_height |-> containers_manager.const_h,
                  previous_shipment |-> operator.uncompleted_shipment,
                  returned |-> returned, stub |-> stub,
                  waiting_containers |-> containers_manager.waiting_containers]]

\* the loop with the optimizers of optimizer.py, which return {}: line 63
\* raises AttributeError
OptimizeStub ==
    LET containers == cm_get_containers(containers_manager,
                                        operator.max_timestamp)
        p == Prepared(containers, <<>>, TRUE)
    IN /\ operator.pc = "loop"
       /\ Len(containers) > 0
       /\ timestamps_manager' = p.tm
       /\ ships_manager' = p.sm
       /\ optimizer_calls' = Append(optimizer_calls, p.call)
       /\ operator' = [operator EXCEPT !.pc = "fault",
                                       !.fault = "AttributeError",
                                       !.at = "shipment_manager.shipments",
                                       !.containers = containers,
                                       !.ships = p.ships]
       /\ last' = [op |-> "optimize_stub"]
       /\ UNCHANGED <<shipment, shipments_manager, containers_manager>>

\* the loop with an optimizer that returns a ShipmentsManager, up to the
\* report of the sending (lines 54-70); shipments[-1] of an empty list raises
\* IndexError
Optimize ==
    /\ operator.pc = "loop"
    /\ \E shipment_manager \in
            Registries(cm_get_containers(containers_manager, operator.max_timestamp),
                       operator.max_timestamp, containers_manager.const_h) :
            LET containers == cm_get_containers(containers_manager,
                                                operator.max_timestamp)
                p == Prepared(containers, shipment_manager.shipments, FALSE)
                n == Len(shipment_manager.shipments)
                containers_to_send == shm_get_containers(shipment_manager, FALSE, TRUE)
            IN /\ Len(containers) > 0
               /\ timestamps_manager' = p.tm
               /\ ships_manager' = p.sm
               /\ optimizer_calls' = Append(optimizer_calls, p.call)
               /\ IF n = 0
                  THEN /\ operator' = [operator EXCEPT !.pc = "fault",
                                                       !.fault = "IndexError",
                                                       !.at = "shipment_manager.shipments",
                                                       !.containers = containers,
                                                       !.ships = p.ships,
                                                       !.shipment_manager = shipment_manager]
                       /\ UNCHANGED containers_manager
                  ELSE /\ operator' = [operator EXCEPT
                                          !.pc = "advance",
                                          !.containers = containers,
                                          !.ships = p.ships,
                                          !.shipment_manager = shipment_manager,
                                          !.uncompleted_shipment = shipment_manager.shipments[n]]
                       /\ containers_manager' = send(containers_manager, containers_to_send, 1)
               /\ last' = [op |-> "optimize"]
               /\ UNCHANGED <<shipment, shipments_manager>>

\* the sending of the uncompleted shipment left out
send_uncompleted_skipped(self, uncompleted_shipment) == self

\* the sending of the containers of the uncompleted shipment (lines 76-77)
send_uncompleted(self, uncompleted_shipment) ==
    send(self, get_all_containers(uncompleted_shipment.sh), 1)

\* the end of the loop body (lines 72-82)
Advance ==
    LET r == increase_max(timestamps_manager)
        next_timestamp == r.ret
    IN /\ operator.pc = "advance"
       /\ timestamps_manager' = r.tm
       /\ IF r.fault # "none"
          THEN /\ operator' = [operator EXCEPT !.pc = "fault", !.fault = r.fault,
                                               !.at = "increase_max"]
               /\ UNCHANGED containers_manager
          ELSE IF next_timestamp > -1
          THEN /\ operator' = [operator EXCEPT !.pc = "loop",
                                               !.max_timestamp = next_timestamp]
               /\ UNCHANGED containers_manager
          ELSE /\ operator' = [operator EXCEPT !.pc = "done", !.exit = "last_timestamp"]
               /\ containers_manager' =
                     send_uncompleted(containers_manager,
                                      operator.uncompleted_shipment)
       /\ last' = [op |-> "advance", next_timestamp |-> next_timestamp]
       /\ UNCHANGED <<shipment, shipments_manager, ships_manager, optimizer_calls>>

NextRun ==
    \/ \E line \in ContainerLines : EnterContainer(line)
    \/ EnterShip
    \/ StartOptimize
    \/ NoContainers
    \/ OptimizeStub
    \/ Optimize
    \/ Advance

SpecRun == InitRun /\ [][NextRun]_vars

\* optimize runs to its end: it is one synchronous call, so a step of its
\* loop that can be taken is taken
LoopStep == NoContainers \/ OptimizeStub \/ Optimize \/ Advance

SpecRunFair == SpecRun /\ WF_vars(LoopStep)

\* ------------------------------------------------- notions of the claims
\* the cells a placed container covers at its level
Footprint(pc) ==
    {<<pc.corner1.height_level, l, w>> :
        l \in pc.corner1.length..(pc.corner2.length - 1),
        w \in pc.corner1.width..(pc.corner2.width - 1)}

\* the cells directly below a placed container
Below(pc) ==
    {<<pc.corner1.height_level - 1, l, w>> :
        l \in pc.corner1.length..(pc.corner2.length - 1),
        w \in pc.corner1.width..(pc.corner2.width - 1)}

Area(pc) == pc.container.length * pc.container.width

\* the occupied cells of a shipment's grid
Occupied(sh) == {c \in DOMAIN sh.occupancy_map : sh.occupancy_map[c] # 0}

\* the cargo of a shipment's flat list
Cargo(sh) == {sh.all_containers[i] : i \in 1..Len(sh.all_containers)}

\* the four checks of tryPlace, on a set of occupied cells
InBounds(sh, pc) ==
    /\ pc.corner1.height_level \in 0..((sh.ship.height \div sh.containers_height) - 1)
    /\ {pc.corner1.length, pc.corner2.length} \subseteq 0..sh.ship.length
    /\ {pc.corner1.width, pc.corner2.width} \subseteq 0..sh.ship.width

Free(occupied, pc) == Footprint(pc) \cap occupied = {}

MeetsThreshold(occupied, pc) ==
    \/ pc.corner1.height_level = 0
    \/ 2 * Cardinality(Below(pc) \cap occupied) >= Area(pc)

NotHeld(sh, pc) == pc.container \notin Cargo(sh)

LastIs(op) == last.op = op

\* C1: the occupancy grid is exactly the union of the footprints of the placed
\* containers: a cell is occupied if and only if a placed container at that
\* level covers it.
C1_GridIsUnionOfFootprints ==
    /\ \A c \in DOMAIN shipment.occupancy_map : shipment.occupancy_map[c] \in {0, 1}
    /\ Occupied(shipment) = UNION {Footprint(pc) : pc \in Placed(shipment)}

\* C1 witness: a join has put containers above those already placed, all of
\* them marked in the grid.
C1_Witness ==
    /\ LastIs("check_and_join") /\ last.ret
    /\ Placed(last.pre) # {}
    /\ Cardinality(Placed(shipment)) > Cardinality(Placed(last.pre))
    /\ Cardinality(Occupied(shipment)) > Cardinality(Occupied(last.pre))

\* C2: no two placed containers of a level share a cell, and check_and_add of
\* a container whose footprint meets that of a placed one returns false.
C2_NoOverlap ==
    /\ \A p, q \in Placed(shipment) : p # q => Footprint(p) \cap Footprint(q) = {}
    /\ \A k \in 1..shipment.levels_nr :
         \A i, j \in 1..Len(shipment.placed_containers_levels[k]) :
            i # j => shipment.placed_containers_levels[k][i]
                        # shipment.placed_containers_levels[k][j]
    /\ LastIs("check_and_add")
         /\ (\E q \in Placed(last.pre) :
                Footprint(q) \cap Footprint(last.placed_container) # {})
       => ~last.ret

\* C2 witness: a check_and_add that only the overlap with a placed container
\* stops.
C2_Witness ==
    /\ LastIs("check_and_add") /\ ~last.ret
    /\ InBounds(last.pre, last.placed_container)
    /\ MeetsThreshold(Occupied(last.pre), last.placed_container)
    /\ NotHeld(last.pre, last.placed_container)
    /\ \E q \in Placed(last.pre) :
          /\ q.container # last.placed_container.container
          /\ q.corner1 # last.placed_container.corner1
          /\ Footprint(q) \cap Footprint(last.placed_container) # {}

\* C3: check_and_add returns true if and only if the bounds, overlap,
\* stability and redundancy checks pass; on false nothing changes, on true
\* exactly the footprint becomes occupied, the container is appended to its
\* level's list and its cargo to the flat list, and nothing else changes.
C3_TryPlace ==
    LastIs("check_and_add") =>
        LET pc == last.placed_container
            pre == last.pre
            k == pc.corner1.height_level + 1
        IN /\ last.fault = "none"
           /\ last.ret <=> /\ InBounds(pre, pc)
                           /\ Free(Occupied(pre), pc)
                           /\ MeetsThreshold(Occupied(pre), pc)
                           /\ NotHeld(pre, pc)
           /\ ~last.ret => shipment = pre
           /\ last.ret =>
                /\ Occupied(shipment) \ Occupied(pre) = Footprint(pc)
                /\ Occupied(pre) \subseteq Occupied(shipment)
                /\ shipment.occupancy_map =
                     [c \in DOMAIN pre.occupancy_map |->
                        IF c \in Footprint(pc) THEN 1 ELSE pre.occupancy_map[c]]
                /\ shipment.placed_containers_levels =
                     [pre.placed_containers_levels EXCEPT ![k] = Append(@, pc)]
                /\ shipment.all_containers = Append(pre.all_containers, pc.container)
                /\ shipment.ship = pre.ship
                /\ shipment.levels_nr = pre.levels_nr
                /\ shipment.containers_height = pre.containers_height

\* C3 witness: a check_and_add that returned true, above level 0, on a
\* shipment that held something.
C3_Witness ==
    /\ LastIs("check_and_add") /\ last.ret
    /\ Len(last.pre.all_containers) >= 1
    /\ last.placed_container.corner1.height_level >= 1

\* C4: with the other checks passing, check_and_add of a container at level
\* k > 0 succeeds if and only if the occupied cells of level k-1 under it, all
\* fragments together, number at least half its area; at level 0 it always
\* succeeds. A 2x2 container at level 1 over an empty level 0 is rejected.
C4_Stability ==
    LastIs("check_and_add") =>
        LET pc == last.placed_container
            pre == last.pre
            support == Cardinality({c \in Below(pc) : c \in Occupied(pre)})
        IN /\ (InBounds(pre, pc) /\ Free(Occupied(pre), pc) /\ NotHeld(pre, pc))
                => (last.ret <=> (pc.corner1.height_level = 0
                                    \/ 2 * support >= Area(pc)))
           /\ (/\ pc.container.length = 2 /\ pc.container.width = 2
               /\ pc.corner1.height_level = 1
               /\ \A c \in Occupied(pre) : c[1] # 0)
                => ~last.ret

\* C4 witness: a container placed at level 1 on two placed containers that
\* do not touch, neither of which carries half of it.
C4_Witness ==
    /\ LastIs("check_and_add") /\ last.ret
    /\ last.placed_container.corner1.height_level = 1
    /\ \E p, q \in Placed(last.pre) :
          /\ p # q
          /\ p.corner2.length <= q.corner1.length
          /\ p.corner2.width <= q.corner1.width
          /\ 2 * Cardinality(Footprint(p)) < Area(last.placed_container)
          /\ 2 * Cardinality(Footprint(q)) < Area(last.placed_container)
          /\ Below(last.placed_container) \cap Occupied(last.pre)
                = Footprint(p) \cup Footprint(q)

\* The carrier of the spec's example: 5 x 5 x 20 with containers 10 high.
ExampleShipment ==
    Shipment([sid |-> 1, length |-> 5, width |-> 5, height |-> 20, timestamp |-> 39], 10)

ExampleContainer ==
    [cid |-> 1, length |-> 2, width |-> 2, height |-> 10, timestamp |-> 39]

\* C5: every placed container has its level in [0, levels), levels being
\* floor(ship.height / H), and both corners inside the ship; check_and_add
\* rejects a container that does not. On the 5x5x20 carrier with H = 10 there
\* are 2 levels and a 2x2 container at level 0, length offset 4, is rejected.
C5_InsideShip ==
    /\ shipment.levels_nr = shipment.ship.height \div shipment.containers_height
    /\ \A pc \in Placed(shipment) : InBounds(shipment, pc)
    /\ \A k \in 1..shipment.levels_nr :
         \A i \in 1..Len(shipment.placed_containers_levels[k]) :
            shipment.placed_containers_levels[k][i].corner1.height_level = k - 1
    /\ (LastIs("check_and_add") /\ ~InBounds(last.pre, last.placed_container))
          => (~last.ret /\ shipment = last.pre)
    /\ ExampleShipment.levels_nr = 2
    /\ ~check_and_add(ExampleShipment,
                      PlacedContainer(ExampleContainer, CornerPosition(4, 0, 0))).ret
    /\ check_and_add(ExampleShipment,
                     PlacedContainer(ExampleContainer, CornerPosition(3, 0, 0))).ret

\* C5 witness: a check_and_add rejected only because the far corner is
\* outside the ship, on a shipment that holds containers.
C5_Witness ==
    /\ LastIs("check_and_add") /\ ~last.ret
    /\ last.placed_container.corner1.height_level < last.pre.levels_nr
    /\ last.placed_container.corner2.length > last.pre.ship.length
    /\ Free(Occupied(last.pre), last.placed_container)
    /\ MeetsThreshold(Occupied(last.pre), last.placed_container)
    /\ NotHeld(last.pre, last.placed_container)
    /\ Placed(shipment) # {}

\* C6: the flat cargo list never holds a container twice: check_and_add
\* rejects a container already placed anywhere in the shipment, and
\* check_and_join rejects when a container of the other shipment is already
\* in this one.
C6_NoDuplicateCargo ==
    /\ \A i, j \in 1..Len(shipment.all_containers) :
          i # j => shipment.all_containers[i] # shipment.all_containers[j]
    /\ (LastIs("check_and_add") /\ last.placed_container.container \in Cargo(last.pre))
          => ~last.ret
    /\ (LastIs("check_and_join") /\ Cargo(last.other) \cap Cargo(last.pre) # {})
          => ~last.ret

\* C6 witness: a check_and_join refused for a shared container alone, and
\* the flat list holds several containers.
C6_Witness ==
    /\ LastIs("check_and_join") /\ ~last.ret
    /\ last.other.ship = last.pre.ship
    /\ get_used_levels_nr(last.pre) + get_used_levels_nr(last.other) <= last.pre.levels_nr
    /\ Cargo(last.other) \cap Cargo(last.pre) # {}
    /\ \A pc \in Placed(last.other) : pc.corner1.height_level = 0
    /\ Len(shipment.all_containers) >= 2

\* the placed containers of the level above x that lean on x and would be
\* below their threshold with the footprint of x cleared
Blockers(sh, x) ==
    {y \in Placed(sh) :
        /\ y.corner1.height_level = x.corner1.height_level + 1
        /\ Below(y) \cap Footprint(x) # {}
        /\ ~MeetsThreshold(Occupied(sh) \ Footprint(x), y)}

\* C7: check_and_remove of a placed container returns true if and only if no
\* placed container of the level directly above whose footprint meets the
\* removed one would be below its threshold with the removed footprint
\* cleared. On true the cells are unmarked and the container leaves both
\* lists; on false, also for a container that is not placed, nothing changes.
C7_TryRemove ==
    LastIs("check_and_remove") =>
        LET pc == last.placed_container
            pre == last.pre
            k == pc.corner1.height_level + 1
        IN /\ pc \in Placed(pre) => (last.ret <=> Blockers(pre, pc) = {})
           /\ pc \notin Placed(pre) => ~last.ret
           /\ ~last.ret => shipment = pre
           /\ last.ret =>
                /\ Occupied(shipment) = Occupied(pre) \ Footprint(pc)
                /\ Placed(shipment) = Placed(pre) \ {pc}
                /\ Cargo(shipment) = Cargo(pre) \ {pc.container}
                /\ Len(shipment.all_containers) = Len(pre.all_containers) - 1
                /\ \A j \in 1..pre.levels_nr :
                      j # k => shipment.placed_containers_levels[j]
                                  = pre.placed_containers_levels[j]

RECURSIVE Dependents(_, _, _)
\* the placed containers that depend on the set D of containers of level k:
\* those of level k+1 below their threshold once the footprints of D are
\* cleared, and the containers that depend on these
Dependents(sh, D, k) ==
    IF D = {} \/ k + 1 >= sh.levels_nr THEN {}
    ELSE LET cleared == Occupied(sh) \ UNION {Footprint(d) : d \in D}
             next == {y \in Placed(sh) :
                        /\ y.corner1.height_level = k + 1
                        /\ ~MeetsThreshold(cleared, y)}
         IN next \cup Dependents(sh, next, k + 1)

\* C8: after remove_recursively(x) of a placed x, x and every container that
\* depends on it for stability, directly or through others, are absent from
\* the flat list and from the lists of the levels, and the grid is exactly
\* the union of the footprints of the containers that are left.
C8_RemoveRecursive ==
    (LastIs("remove_recursively") /\ last.placed_container \in Placed(last.pre)) =>
        LET x == last.placed_container
            gone == {x} \cup Dependents(last.pre, {x}, x.corner1.height_level)
        IN /\ gone \cap Placed(shipment) = {}
           /\ \A g \in gone : g.container \notin Cargo(shipment)
           /\ Placed(shipment) \subseteq Placed(last.pre)
           /\ Cargo(shipment) = {pc.container : pc \in Placed(shipment)}
           /\ Occupied(shipment) = UNION {Footprint(pc) : pc \in Placed(shipment)}

\* C8 witness: the removal took a container two levels above x with it.
C8_Witness ==
    /\ LastIs("remove_recursively")
    /\ \E g \in Placed(last.pre) \ Placed(shipment) :
          /\ g.corner1.height_level = last.placed_container.corner1.height_level + 2
          /\ MeetsThreshold(Occupied(last.pre), g)
    /\ \E g \in Placed(last.pre) \ Placed(shipment) :
          /\ g.corner1.height_level = last.placed_container.corner1.height_level + 1
          /\ MeetsThreshold(Occupied(last.pre), g)

\* C9: remove_recursively of a placed container ends, returns true without
\* raising, and nests its calls no deeper than the number of levels.
C9_RemoveRecursiveEnds ==
    (LastIs("remove_recursively") /\ last.placed_container \in Placed(last.pre)) =>
        /\ last.ret
        /\ last.fault = "none"
        /\ last.depth >= 1
        /\ last.depth <= last.pre.levels_nr - last.placed_container.corner1.height_level

\* C9 witness: a removal that nested as deep as the shipment has levels.
C9_Witness ==
    /\ LastIs("remove_recursively") /\ last.ret
    /\ last.depth = last.pre.levels_nr
    /\ last.depth >= 3

\* C10: when check_and_join returns false, the grid, the lists of the levels
\* and the flat list are as they were before the call.
C10_JoinAtomic ==
    ((LastIs("check_and_join") \/ LastIs("check_and_join_self")) /\ ~last.ret)
        => shipment = last.pre

\* C10 witness: a join refused at a later container after the first container
\* of the other shipment had passed its checks.
C10_Witness ==
    /\ LastIs("check_and_join") /\ ~last.ret
    /\ last.other.ship = last.pre.ship
    /\ get_used_levels_nr(last.pre) + get_used_levels_nr(last.other) <= last.pre.levels_nr
    /\ Placed(last.pre) # {}
    /\ Cardinality(Placed(last.other)) >= 2
    /\ LET first == Flatten(last.other.placed_containers_levels, 1)[1]
       IN /\ _check_if_stable(first, last.pre.occupancy_map)
          /\ _check_redundancy(last.pre, first)

\* the number of non-empty levels counted from level 0 up to the first empty
\* one
UsedLevels(sh) ==
    Cardinality({n \in 1..sh.levels_nr :
                    \A k \in 1..n : Len(sh.placed_containers_levels[k]) > 0})

\* C11: check_and_join succeeds only if every container of the other
\* shipment, moved up by the used levels of this one, is supported by at
\* least half its area in the grid of this shipment as it is before the call.
C11_JoinChecksShifted ==
    (LastIs("check_and_join") /\ last.ret) =>
        \A pc \in Placed(last.other) :
            MeetsThreshold(Occupied(last.pre),
                           get_shifted_copy(pc, 0, 0, UsedLevels(last.pre)))

\* C12: check_and_join returns false and changes nothing when the other
\* shipment is on another ship or when the used levels of both exceed the
\* levels of this shipment.
C12_JoinRefusals ==
    (/\ LastIs("check_and_join")
     /\ \/ last.other.ship # last.pre.ship
        \/ UsedLevels(last.pre) + UsedLevels(last.other) > last.pre.levels_nr)
        => (~last.ret /\ last.fault = "none" /\ shipment = last.pre)

\* C12 witness: a join refused for the ship alone: the levels suffice and
\* every container of the other shipment stands and is new to this one.
C12_Witness ==
    /\ LastIs("check_and_join") /\ ~last.ret
    /\ last.other.ship # last.pre.ship
    /\ Placed(last.pre) # {} /\ Placed(last.other) # {}
    /\ UsedLevels(last.pre) + UsedLevels(last.other) <= last.pre.levels_nr
    /\ \A pc \in Placed(last.other) :
          /\ NotHeld(last.pre, pc)
          /\ MeetsThreshold(Occupied(last.pre), pc)

\* a join refused for the levels: both shipments are on the same ship
C12_WitnessLevels ==
    /\ LastIs("check_and_join") /\ ~last.ret
    /\ last.other.ship = last.pre.ship
    /\ UsedLevels(last.pre) + UsedLevels(last.other) > last.pre.levels_nr

\* ------------------------------------------------ ShipmentsManager claims

\* the members of the manager, in order
Members == shipments_manager.shipments

\* the containers placed in a shipment object, their timestamps and their ids
Units(obj) == {pc.container : pc \in Placed(obj.sh)}
Stamps(obj) == {c.timestamp : c \in Units(obj)}
Ids(obj) == {c.cid : c \in Units(obj)}

\* the ids held by the members of a list
HeldIds(shipments) == UNION {Ids(shipments[i]) : i \in 1..Len(shipments)}

\* C13: in every state reached by check_and_add and check_and_remove the
\* timestamps of the first member are all at most the main timestamp and the
\* timestamp set of every later member is exactly {main timestamp}.  With
\* main timestamp 40 a first member with timestamps {39} is accepted, a
\* following member with {39, 40} is rejected and one with exactly {40}, whose
\* containers no member holds, is accepted.
C13_TemporalInvariant ==
    /\ \A i \in 1..Len(Members) :
          IF i = 1
          THEN \A t \in Stamps(Members[i]) : t <= shipments_manager.main_timestamp
          ELSE Stamps(Members[i]) = {shipments_manager.main_timestamp}
    /\ (/\ LastIs("shm_check_and_add")
        /\ last.shipment.type = "Shipment"
        /\ last.pre.main_timestamp = 40)
       => /\ (Len(last.pre.shipments) = 0 /\ Stamps(last.shipment) = {39})
                => last.ret
          /\ (Len(last.pre.shipments) > 0 /\ Stamps(last.shipment) = {39, 40})
                => ~last.ret
          /\ (/\ Len(last.pre.shipments) > 0
              /\ Stamps(last.shipment) = {40}
              /\ Ids(last.shipment) \cap HeldIds(last.pre.shipments) = {})
                => last.ret

\* C13 witness: with main timestamp 40 the first member has the timestamps
\* {39} and a shipment with the timestamps {40} has just been accepted after
\* it.
C13_Witness ==
    /\ LastIs("shm_check_and_add") /\ last.ret
    /\ shipments_manager.main_timestamp = 40
    /\ Len(last.pre.shipments) = 1
    /\ Stamps(last.pre.shipments[1]) = {39}
    /\ Stamps(last.shipment) = {40}
    /\ Members = Append(last.pre.shipments, last.shipment)

\* with main timestamp 40 a shipment with the timestamps {39, 40} has just
\* been rejected after a first member with the timestamps {39}
C13_WitnessRejected ==
    /\ LastIs("shm_check_and_add") /\ ~last.ret
    /\ shipments_manager.main_timestamp = 40
    /\ Len(last.pre.shipments) = 1
    /\ Stamps(last.pre.shipments[1]) = {39}
    /\ Stamps(last.shipment) = {39, 40}
    /\ Ids(last.shipment) \cap HeldIds(last.pre.shipments) = {}

C15_RemoveRule ==
    LastIs("shm_check_and_remove") =>
        LET before == last.pre.shipments
            m == last.shipment
            member == \E i \in 1..Len(before) : before[i] = m
            allowed == member /\ (Len(before) = 1 \/ before[1] # m)
        IN /\ last.fault = "none"
           /\ last.ret <=> allowed
           /\ last.ret => \A i \in 1..Len(Members) : Members[i] # m
           /\ ~last.ret => Members = before
           /\ Len(before) > 1 => (Len(Members) > 0 /\ Members[1] = before[1])

\* C15 witness: the removal of the first of several members has just been
\* refused.
C15_Witness ==
    /\ LastIs("shm_check_and_remove") /\ ~last.ret
    /\ Len(last.pre.shipments) > 1
    /\ last.shipment = last.pre.shipments[1]
    /\ Members = last.pre.shipments

\* a later member has just been removed
C15_WitnessRemoved ==
    /\ LastIs("shm_check_and_remove") /\ last.ret
    /\ Len(last.pre.shipments) > 1
    /\ Len(Members) = Len(last.pre.shipments) - 1

\* a Shipment object equal in value to a member, but another object, has just
\* been refused
C15_WitnessOtherObject ==
    /\ LastIs("shm_check_and_remove") /\ ~last.ret
    /\ \E i \in 1..Len(last.pre.shipments) :
          /\ last.pre.shipments[i].sh = last.shipment.sh
          /\ last.pre.shipments[i].oid # last.shipment.oid
    /\ ~InList(last.pre.shipments, last.shipment)

\* the list without its i-th element
Without(list, i) == SubSeq(list, 1, i - 1) \o SubSeq(list, i + 1, Len(list))

\* C16: a check_and_add or check_and_remove that returns false leaves the
\* list of members as it was; a successful check_and_add appends the shipment
\* at the end, a successful check_and_remove takes only that shipment out;
\* the order of the other members stays.
C16_RegistryTransactional ==
    (LastIs("shm_check_and_add") \/ LastIs("shm_check_and_remove")) =>
        /\ ~last.ret => shipments_manager = last.pre
        /\ (LastIs("shm_check_and_add") /\ last.ret)
              => Members = last.pre.shipments \o <<last.shipment>>
        /\ (LastIs("shm_check_and_remove") /\ last.ret)
              => \E i \in 1..Len(last.pre.shipments) :
                    /\ last.pre.shipments[i] = last.shipment
                    /\ Members = Without(last.pre.shipments, i)
        /\ shipments_manager.main_timestamp = last.pre.main_timestamp

\* C16 witness: a shipment has just been appended behind two members.
C16_Witness ==
    /\ LastIs("shm_check_and_add") /\ last.ret
    /\ Len(last.pre.shipments) = 2
    /\ Len(Members) = 3
    /\ Members[3] = last.shipment

\* the second of three members has just been removed
C16_WitnessRemoved ==
    /\ LastIs("shm_check_and_remove") /\ last.ret
    /\ Len(last.pre.shipments) = 3
    /\ last.shipment = last.pre.shipments[2]
    /\ Members = <<last.pre.shipments[1], last.pre.shipments[3]>>

\* C17: check_and_add ends with True or False and never with an exception,
\* for every shipment and every state of the manager, a shipment without
\* containers offered to a manager without shipments included.
C17_AddNeverFaults ==
    LastIs("shm_check_and_add") => last.fault = "none"

\* ----------------------------------------------- TimestampsManager claims

\* the timestamps of a manager, as a set
Backing(tm) == {tm.timestamps[i] : i \in 1..Len(tm.timestamps)}

\* C18: in every state reached by add, set_min, set_max, increase_min and
\* increase_max each of min and max is -1, and then there is no timestamp, or
\* is one of the timestamps.
C18_CursorsAreMembers ==
    \A cursor \in {timestamps_manager.min, timestamps_manager.max} :
        \/ cursor = -1 /\ Backing(timestamps_manager) = {}
        \/ cursor \in Backing(timestamps_manager)

\* C18 witness: set_min has just been called with a value that is not a
\* timestamp, though between 0 and max, and min is still a timestamp.
C18_Witness ==
    /\ LastIs("set_min")
    /\ last.x.value \notin Backing(last.pre)
    /\ last.x.value >= 0 /\ last.x.value <= last.pre.max
    /\ timestamps_manager.min \in Backing(timestamps_manager)
    /\ timestamps_manager.min # last.x.value

\* increase_min has just moved min to the next timestamp
C18_WitnessIncreased ==
    /\ LastIs("increase_min")
    /\ timestamps_manager.min > last.pre.min
    /\ last.ret = timestamps_manager.min
    /\ Cardinality(Backing(timestamps_manager)) >= 3

\* C19: in every reachable state min <= max.
C19_MinAtMostMax == timestamps_manager.min <= timestamps_manager.max

\* C19 witness: set_min has just been called with a timestamp above max and
\* min has stayed.
C19_Witness ==
    /\ LastIs("set_min")
    /\ last.x.value \in Backing(last.pre)
    /\ last.x.value > last.pre.max
    /\ timestamps_manager = last.pre

\* increase_min has just been called with min = max below the last timestamp
\* and min has stayed
C19_WitnessIncrease ==
    /\ LastIs("increase_min") /\ last.fault = "none"
    /\ last.pre.min = last.pre.max
    /\ \E t \in Backing(last.pre) : t > last.pre.max
    /\ timestamps_manager = last.pre

\* C20: add(x) changes nothing when x is negative, no int or already a
\* timestamp; the first accepted x becomes min and max; a later accepted x is
\* inserted and min, max become min(min, x), max(max, x).  From the new
\* manager add(5); add(3); add(5); add(1) gives min 1, max 5 and the
\* timestamps 1, 3, 5.
C20_Add ==
    /\ LastIs("add") =>
          LET x == last.x
              tm == timestamps_manager
              ignored == \/ x.type # "int"
                         \/ x.value < 0
                         \/ x.value \in Backing(last.pre)
          IN /\ last.fault = "none"
             /\ ignored => tm = last.pre
             /\ (~ignored /\ Backing(last.pre) = {})
                   => /\ tm.min = x.value /\ tm.max = x.value
                      /\ Backing(tm) = {x.value}
             /\ (~ignored /\ Backing(last.pre) # {})
                   => /\ Backing(tm) = Backing(last.pre) \cup {x.value}
                      /\ tm.min = (IF x.value < last.pre.min
                                   THEN x.value ELSE last.pre.min)
                      /\ tm.max = (IF x.value > last.pre.max
                                   THEN x.value ELSE last.pre.max)
             /\ \A i, j \in 1..Len(tm.timestamps) :
                   i < j => tm.timestamps[i] < tm.timestamps[j]
    /\ AddEach(TimestampsManager, <<5, 3, 5, 1>>, 1)
          = [min |-> 1, max |-> 5, timestamps |-> <<1, 3, 5>>]

\* C20 witness: after the timestamps 3 and 5, with min 3 and max 5, add(1)
\* has just given min 1, max 5 and the timestamps 1, 3, 5.
C20_Witness ==
    /\ LastIs("add")
    /\ last.x = [type |-> "int", value |-> 1]
    /\ last.pre = [min |-> 3, max |-> 5, timestamps |-> <<3, 5>>]
    /\ timestamps_manager = [min |-> 1, max |-> 5, timestamps |-> <<1, 3, 5>>]

\* add of a float that is no timestamp yet has just been ignored
C20_WitnessFloat ==
    /\ LastIs("add")
    /\ last.x.type = "float" /\ last.x.value >= 0
    /\ last.x.value \notin Backing(last.pre)
    /\ Backing(last.pre) # {}
    /\ timestamps_manager = last.pre

\* add has just raised max while min, moved up by set_min, has stayed
C20_WitnessMaxRaised ==
    /\ LastIs("add")
    /\ timestamps_manager.max = last.x.value
    /\ timestamps_manager.max > last.pre.max
    /\ timestamps_manager.min = last.pre.min
    /\ \E t \in Backing(last.pre) : t < last.pre.min

\* the smallest and the largest element of a non-empty set of numbers
Least(S) == CHOOSE x \in S : \A y \in S : x <= y
Largest(S) == CHOOSE x \in S : \A y \in S : y <= x

\* the next larger timestamp after x, for x below the largest one
NextAfter(tm, x) == Least({t \in Backing(tm) : t > x})

\* C21, as stated: whenever add accepts a new timestamp, min is afterwards the smallest
\* and max the largest of all timestamps, whatever set_min, set_max and
\* increase_* calls came before.
C21_AddRestoresExtremes ==
    (LastIs("add") /\ Backing(timestamps_manager) # Backing(last.pre))
        => /\ timestamps_manager.min = Least(Backing(timestamps_manager))
           /\ timestamps_manager.max = Largest(Backing(timestamps_manager))

\* C21, amended: whenever add accepts a new timestamp x on a manager with
\* timestamps, the cursors only move outwards: min becomes the smaller of the
\* old min and x, max the larger of the old max and x.  They are the smallest
\* and the largest timestamp if they were before the call; a cursor that
\* set_min, set_max or increase_* moved inwards stays inside unless x lies
\* beyond it.
C21_AddMovesOutwards ==
    (/\ LastIs("add")
     /\ Backing(last.pre) # {}
     /\ Backing(timestamps_manager) # Backing(last.pre))
        => LET x == last.x.value
               tm == timestamps_manager
           IN /\ tm.min <= last.pre.min /\ tm.max >= last.pre.max
              /\ tm.min \in {last.pre.min, x} /\ tm.max \in {last.pre.max, x}
              /\ tm.min <= x /\ x <= tm.max
              /\ last.pre.min = Least(Backing(last.pre))
                    => tm.min = Least(Backing(tm))
              /\ last.pre.max = Largest(Backing(last.pre))
                    => tm.max = Largest(Backing(tm))

\* C21 witness: add has just accepted a timestamp above a min that set_min or
\* increase_min had moved up; min has stayed above the smallest timestamp.
C21_Witness ==
    /\ LastIs("add")
    /\ Backing(last.pre) # {}
    /\ Backing(timestamps_manager) # Backing(last.pre)
    /\ last.pre.min > Least(Backing(last.pre))
    /\ last.x.value > last.pre.min
    /\ timestamps_manager.min = last.pre.min
    /\ timestamps_manager.min > Least(Backing(timestamps_manager))

\* C22: on a manager with timestamps, increase_max moves max to the next
\* larger timestamp and returns it whenever max is not the largest timestamp;
\* when max is the largest it returns -1 and changes nothing.
C22_IncreaseMax ==
    (LastIs("increase_max") /\ Backing(last.pre) # {}) =>
        /\ last.fault = "none"
        /\ IF last.pre.max < Largest(Backing(last.pre))
           THEN /\ timestamps_manager =
                      [last.pre EXCEPT !.max = NextAfter(last.pre, last.pre.max)]
                /\ last.ret = timestamps_manager.max
           ELSE /\ last.ret = -1
                /\ timestamps_manager = last.pre

\* C22 witness: increase_max has just moved max over to the next of several
\* larger timestamps.
C22_Witness ==
    /\ LastIs("increase_max")
    /\ timestamps_manager.max > last.pre.max
    /\ last.ret = timestamps_manager.max
    /\ \E t \in Backing(last.pre) : t > timestamps_manager.max

\* increase_max has just returned -1 with max at the largest timestamp
C22_WitnessSentinel ==
    /\ LastIs("increase_max") /\ last.fault = "none"
    /\ Cardinality(Backing(last.pre)) >= 2
    /\ last.pre.max = Largest(Backing(last.pre))
    /\ last.ret = -1

\* C23, as stated: on a manager with timestamps, increase_min moves min to the
\* next larger timestamp whenever min is not the largest timestamp, wherever
\* max is, and returns -1 without a change only when min is the largest.
C23_IncreaseMinAlways ==
    (LastIs("increase_min") /\ Backing(last.pre) # {}) =>
        /\ last.pre.min < Largest(Backing(last.pre))
              => timestamps_manager.min = NextAfter(last.pre, last.pre.min)
        /\ (last.ret = -1 /\ timestamps_manager = last.pre)
              => last.pre.min = Largest(Backing(last.pre))

\* C23, amended: on a manager with timestamps, increase_min moves min to the
\* next larger timestamp and returns it when min is not the largest timestamp
\* and that next timestamp is at most max; when the next timestamp is above
\* max it changes nothing and returns the unchanged min; it returns -1,
\* without a change, exactly when min is the largest timestamp.
C23_IncreaseMin ==
    (LastIs("increase_min") /\ Backing(last.pre) # {}) =>
        /\ last.fault = "none"
        /\ IF last.pre.min < Largest(Backing(last.pre))
           THEN IF NextAfter(last.pre, last.pre.min) <= last.pre.max
                THEN /\ timestamps_manager =
                           [last.pre EXCEPT !.min = NextAfter(last.pre, last.pre.min)]
                     /\ last.ret = timestamps_manager.min
                ELSE /\ timestamps_manager = last.pre
                     /\ last.ret = last.pre.min
           ELSE /\ last.ret = -1
                /\ timestamps_manager = last.pre

\* C23 witness: increase_min has just been called with min = max below the
\* largest timestamp; min has stayed and was returned.
C23_Witness ==
    /\ LastIs("increase_min")
    /\ Backing(last.pre) # {}
    /\ last.pre.min = last.pre.max
    /\ last.pre.min < Largest(Backing(last.pre))
    /\ timestamps_manager = last.pre
    /\ last.ret = last.pre.min

\* increase_min has just moved min to the next timestamp, below max
C23_WitnessMoved ==
    /\ LastIs("increase_min")
    /\ timestamps_manager.min > last.pre.min
    /\ timestamps_manager.min = NextAfter(last.pre, last.pre.min)
    /\ timestamps_manager.min < timestamps_manager.max

\* C24: set_min(x) makes x the min if and only if x is a timestamp and
\* x <= max, set_max(x) makes x the max if and only if x is a timestamp and
\* x >= min; otherwise nothing changes, and neither changes the other cursor
\* or the timestamps.
C24_SetCursors ==
    /\ LastIs("set_min") =>
          IF last.x.value \in Backing(last.pre) /\ last.x.value <= last.pre.max
          THEN timestamps_manager = [last.pre EXCEPT !.min = last.x.value]
          ELSE timestamps_manager = last.pre
    /\ LastIs("set_max") =>
          IF last.x.value \in Backing(last.pre) /\ last.x.value >= last.pre.min
          THEN timestamps_manager = [last.pre EXCEPT !.max = last.x.value]
          ELSE timestamps_manager = last.pre

\* C24 witness: set_max has just been called with a timestamp below min and
\* nothing has changed.
C24_Witness ==
    /\ LastIs("set_max")
    /\ last.x.value \in Backing(last.pre)
    /\ last.x.value < last.pre.min
    /\ timestamps_manager = last.pre

\* set_max has just lowered max to a timestamp that is not the min
C24_WitnessSet ==
    /\ LastIs("set_max")
    /\ timestamps_manager.max = last.x.value
    /\ timestamps_manager.max < last.pre.max
    /\ timestamps_manager.max > timestamps_manager.min

\* C25: add, set_min, set_max, increase_min and increase_max never remove a
\* timestamp, the list stays sorted without duplicates, and only add changes
\* it.
C25_AppendOnly ==
    /\ \A i, j \in 1..Len(timestamps_manager.timestamps) :
          i < j => timestamps_manager.timestamps[i]
                      < timestamps_manager.timestamps[j]
    /\ last.op \in {"add", "set_min", "set_max", "increase_min", "increase_max"}
          => /\ Backing(last.pre) \subseteq Backing(timestamps_manager)
             /\ last.op # "add"
                   => timestamps_manager.timestamps = last.pre.timestamps

\* C25 witness: add has just put a timestamp between two others, after the
\* cursors were moved.
C25_Witness ==
    /\ LastIs("add")
    /\ Backing(timestamps_manager) = Backing(last.pre) \cup {last.x.value}
    /\ \E a, b \in Backing(last.pre) : a < last.x.value /\ last.x.value < b
    /\ last.pre.min # Least(Backing(last.pre))

\* ------------------------------------------------------ Operator claims

\* the waiting and the sent containers
Waiting ==
    {containers_manager.waiting_containers[i] :
        i \in 1..Len(containers_manager.waiting_containers)}
Sent ==
    {containers_manager.sent_containers[i] :
        i \in 1..Len(containers_manager.sent_containers)}

\* the number of optimizer calls made
Iterations == Len(optimizer_calls)

\* the last shipment of the ShipmentsManager a call returned
Trailing(call) == call.returned[Len(call.returned)]

\* C26: whenever the loop of optimize is left, the containers of the last
\* shipment of the last batch have been sent; the loop is never left through
\* the branch without containers while an uncompleted shipment is held whose
\* containers are waiting.
C26_ExitAfterFlush ==
    operator.pc = "done" =>
        /\ operator.exit = "no_containers" =>
              /\ Iterations = 0
              /\ operator.uncompleted_shipment = NoObject
        /\ Iterations > 0 =>
              /\ operator.exit = "last_timestamp"
              /\ operator.uncompleted_shipment = Trailing(optimizer_calls[Iterations])
              /\ Units(operator.uncompleted_shipment) \subseteq Sent
              /\ Units(operator.uncompleted_shipment) \cap Waiting = {}

\* C26 witness: the loop has been left after three batches and the two
\* containers of the last shipment of the last batch are sent.
C26_Witness ==
    /\ operator.pc = "done"
    /\ Iterations = 3
    /\ Cardinality(Units(operator.uncompleted_shipment)) = 2
    /\ Units(operator.uncompleted_shipment) \subseteq Sent

\* C27: in every iteration the containers of every shipment but the last are
\* sent before increase_max is called; those of the last shipment are not
\* sent in that iteration unless increase_max returns -1; and the last
\* shipment is the previous_shipment of the next optimizer call.
C27_CompletedSentTrailingHeld ==
    /\ operator.pc = "advance" =>
          LET shipments == operator.shipment_manager.shipments
              n == Len(shipments)
          IN /\ \A i \in 1..(n - 1) :
                   /\ Units(shipments[i]) \subseteq Sent
                   /\ Units(shipments[i]) \cap Waiting = {}
             /\ Units(shipments[n]) \subseteq Waiting
             /\ Units(shipments[n]) \cap Sent = {}
             /\ operator.uncompleted_shipment = shipments[n]
             /\ timestamps_manager.max = operator.max_timestamp
    /\ (LastIs("advance") /\ operator.pc = "loop") =>
          /\ last.next_timestamp > -1
          /\ Units(operator.uncompleted_shipment) \subseteq Waiting
          /\ Units(operator.uncompleted_shipment) \cap Sent = {}
    /\ (LastIs("advance") /\ operator.pc = "done") => last.next_timestamp = -1
    /\ \A k \in 1..Iterations :
          optimizer_calls[k].previous_shipment =
              IF k = 1 THEN NoObject ELSE Trailing(optimizer_calls[k - 1])

\* C27 witness: in the second iteration, before increase_max, the containers
\* of the two first shipments are sent and the one of the third is waiting;
\* the optimizer was given the last shipment of the first iteration.
C27_Witness ==
    /\ operator.pc = "advance"
    /\ Iterations = 2
    /\ Len(operator.shipment_manager.shipments) = 3
    /\ Units(operator.shipment_manager.shipments[1]) \subseteq Sent
    /\ Units(operator.shipment_manager.shipments[2]) \subseteq Sent
    /\ Units(operator.shipment_manager.shipments[3]) \subseteq Waiting
    /\ optimizer_calls[2].previous_shipment = Trailing(optimizer_calls[1])
    /\ Units(optimizer_calls[2].previous_shipment) # {}

\* the held shipment is waiting again at the head of the next iteration
C27_WitnessHeld ==
    /\ LastIs("advance") /\ operator.pc = "loop"
    /\ Units(operator.uncompleted_shipment) # {}
    /\ Units(operator.uncompleted_shipment) \subseteq Waiting

\* C28: a run starts with max = min; the timestamps of the successive
\* optimizer calls are timestamps of the manager, each the next larger one
\* after the one before; the loop is left right after the call with the
\* largest timestamp, so there is one call for every timestamp from the
\* first min on.
C28_OneCallPerTimestamp ==
    /\ \A k \in 1..Iterations :
          /\ optimizer_calls[k].timestamp \in Backing(timestamps_manager)
          /\ k > 1 => /\ optimizer_calls[k - 1].timestamp
                            < optimizer_calls[k].timestamp
                      /\ optimizer_calls[k].timestamp =
                            NextAfter(timestamps_manager,
                                      optimizer_calls[k - 1].timestamp)
    /\ Iterations > 0 =>
          optimizer_calls[1].timestamp = Least(Backing(timestamps_manager))
    /\ (operator.pc = "advance" /\ Iterations > 0)
          => timestamps_manager.max = optimizer_calls[Iterations].timestamp
    /\ (operator.pc = "done" /\ Iterations > 0) =>
          /\ optimizer_calls[Iterations].timestamp
                = Largest(Backing(timestamps_manager))
          /\ Iterations = Cardinality(Backing(timestamps_manager))

\* C30: the batch of an iteration is exactly the waiting containers with a
\* timestamp up to max_timestamp, in the order of the waiting list, which is
\* by non-decreasing timestamp: a container is accepted only with a timestamp
\* that is at least every timestamp observed.
C30_BatchIsAllDue ==
    /\ \A i, j \in 1..Len(containers_manager.waiting_containers) :
          i < j => containers_manager.waiting_containers[i].timestamp
                      <= containers_manager.waiting_containers[j].timestamp
    /\ \A k \in 1..Iterations :
          optimizer_calls[k].containers =
              SelectSeq(optimizer_calls[k].waiting_containers,
                        LAMBDA c : c.timestamp <= optimizer_calls[k].timestamp)
    /\ LastIs("enter_container") =>
          /\ ~last.none => \A t \in Backing(timestamps_manager) :
                              last.line.timestamp >= t
          /\ (\E t \in Backing(timestamps_manager) : last.line.timestamp < t)
                => last.none

\* C30 witness: the second batch holds a container left waiting by the first
\* iteration and a newer one, and a container with a later timestamp waits
\* behind them.
C30_Witness ==
    /\ operator.pc = "advance"
    /\ Iterations = 2
    /\ Len(optimizer_calls[2].containers) = 2
    /\ optimizer_calls[2].containers[1].timestamp
          < optimizer_calls[2].containers[2].timestamp
    /\ optimizer_calls[2].containers[1] \in
          {optimizer_calls[1].containers[i] :
              i \in 1..Len(optimizer_calls[1].containers)}
    /\ Len(optimizer_calls[2].waiting_containers) = 3

\* a container line with a timestamp below the latest one has just been
\* refused
C30_WitnessRefused ==
    /\ LastIs("enter_container")
    /\ last.none
    /\ last.line.ints /\ last.line.length = 1
    /\ last.line.height = ContainersHeight
    /\ last.line.cid \notin {c.cid : c \in Waiting}
    /\ last.line.timestamp >= 0
    /\ last.line.timestamp < last.latest_timestamp

\* C29: with an optimizer that returns a ShipmentsManager with at least one
\* shipment, the loop of optimize ends, after at most one iteration for every
\* timestamp of the timestamps manager.
C29_LoopTerminates ==
    /\ [](Cardinality({k \in 1..Iterations :
                          Len(optimizer_calls[k].returned) > 0})
             <= Cardinality(Backing(timestamps_manager)))
    /\ [](operator.pc = "loop" =>
             <>(\/ operator.pc = "done"
                \/ /\ operator.pc = "fault"
                   /\ operator.at = "shipment_manager.shipments"))

\* ---------------------------------------------------- ShipsManager claims

\* the ships of a manager with a timestamp up to max_timestamp, in the order
\* they were added
Eligible(sm, max_timestamp) ==
    SelectSeq(sm.ships, LAMBDA ship : ship.timestamp <= max_timestamp)

\* C31: get_available returns at most max_available ships, every one with a
\* timestamp up to max_timestamp; they are the ships added last among those
\* with such a timestamp, the one added last first, and none of them that
\* was added after a returned one is left out.
C31_AvailableNewestFirst ==
    LastIs("get_available") =>
        LET e == Eligible(last.pre, last.max_timestamp)
            n == Len(e)
        IN /\ Len(last.ret) <= last.pre.max_available
           /\ Len(last.ret) <= n
           /\ Len(last.ret) = n \/ Len(last.ret) = last.pre.max_available
           /\ \A i \in 1..Len(last.ret) :
                 /\ last.ret[i].timestamp <= last.max_timestamp
                 /\ last.ret[i] = e[n + 1 - i]

\* C32: in every iteration, once set_min has been called, min is the least
\* timestamp of the batch of containers, so every ship given to the optimizer
\* has a timestamp that is at most the timestamp of every container of the
\* batch.
C32_MinIsBatchMin ==
    (\/ operator.pc = "advance"
     \/ operator.pc = "fault" /\ operator.at = "shipment_manager.shipments") =>
        /\ timestamps_manager.min = MinTimestamp(operator.containers)
        /\ \A i \in 1..Len(operator.ships), j \in 1..Len(operator.containers) :
              operator.ships[i].timestamp <= operator.containers[j].timestamp

\* C33: remove_recursively of a container that is not placed in the shipment
\* leaves the occupancy map, the lists of the levels and all_containers as
\* they were, and returns False or raises an exception.
C33_UnplacedRemoveChangesNothing ==
    LastIs("remove_recursively_unplaced") =>
        /\ shipment.occupancy_map = last.pre.occupancy_map
        /\ shipment.placed_containers_levels
              = last.pre.placed_containers_levels
        /\ shipment.all_containers = last.pre.all_containers
        /\ last.fault # "none" \/ ~last.ret

\* ------------------------------------------------ Shipment claims, again

\* the containers of another shipment as check_and_join places them: moved
\* up by the used levels of this one
Lifted(self, other) ==
    {[pc EXCEPT !.corner1.height_level = @ + UsedLevels(self),
                !.corner2.height_level = @ + UsedLevels(self)] :
        pc \in Placed(other)}

\* C34: after a check_and_join that returned True the shipment holds every
\* placed container it held before, unchanged, and one more for every placed
\* container of the other shipment, with the same container and the same
\* length and width and with the level raised by the used levels of this
\* shipment before the call; the other shipment is unchanged.
C34_JoinAddsLiftedCopies ==
    /\ (LastIs("check_and_join") /\ last.ret) =>
          /\ last.fault = "none"
          /\ \A k \in 1..last.pre.levels_nr :
                SubSeq(shipment.placed_containers_levels[k], 1,
                       Len(last.pre.placed_containers_levels[k]))
                   = last.pre.placed_containers_levels[k]
          /\ SubSeq(shipment.all_containers, 1, Len(last.pre.all_containers))
                = last.pre.all_containers
          /\ Placed(shipment) = Placed(last.pre) \cup Lifted(last.pre, last.other)
          /\ Cardinality(Placed(shipment))
                = Cardinality(Placed(last.pre)) + Cardinality(Placed(last.other))
          /\ Len(shipment.all_containers)
                = Len(last.pre.all_containers) + Len(last.other.all_containers)
          /\ Cargo(shipment) = Cargo(last.pre) \cup Cargo(last.other)
          /\ Occupied(shipment) =
                Occupied(last.pre)
                \cup UNION {Footprint(pc) : pc \in Lifted(last.pre, last.other)}
    /\ (LastIs("check_and_join_self") /\ last.ret) => shipment = last.pre

\* C34 witness: a join has put two containers of the other shipment, from two
\* of its levels, above the two used levels of this one.
C34_Witness ==
    /\ LastIs("check_and_join") /\ last.ret
    /\ UsedLevels(last.pre) = 1
    /\ UsedLevels(last.other) = 2
    /\ Cardinality(Placed(last.other)) = 2
    /\ Lifted(last.pre, last.other) \subseteq Placed(shipment)
    /\ \E pc \in Placed(shipment) : pc.corner1.height_level = 2

\* a shipment without containers joined with itself
C34_WitnessSelf ==
    LastIs("check_and_join_self") /\ last.ret

\* C35: in every state reached by check_and_add, check_and_remove,
\* remove_recursively of placed containers and check_and_join, every placed
\* container above level 0 is stable: at least half the cells under it are
\* occupied.
C35_EveryPlacedStable ==
    \A pc \in Placed(shipment) :
        pc.corner1.height_level > 0 =>
            2 * Cardinality(Below(pc) \cap Occupied(shipment)) >= Area(pc)

\* the levels of a shipment that hold a placed container
NonEmptyLevels(sh) ==
    {k \in 1..sh.levels_nr : Len(sh.placed_containers_levels[k]) > 0}

\* C36: in every state reached by check_and_add, check_and_remove,
\* remove_recursively of placed containers and check_and_join the non-empty
\* levels are the first ones, with no empty level under a non-empty one, so
\* get_used_levels_nr is the number of non-empty levels.
C36_UsedLevelsContiguous ==
    /\ \A k \in NonEmptyLevels(shipment) :
          \A j \in 1..k : j \in NonEmptyLevels(shipment)
    /\ get_used_levels_nr(shipment) = Cardinality(NonEmptyLevels(shipment))

\* C36 witness: a removal has emptied the top level of three used ones, and
\* the two levels under it are still in use.
C36_Witness ==
    /\ LastIs("check_and_remove") /\ last.ret
    /\ NonEmptyLevels(last.pre) = {1, 2, 3}
    /\ NonEmptyLevels(shipment) = {1, 2}

\* remove_recursively has emptied two levels at once
C36_WitnessRecursive ==
    /\ LastIs("remove_recursively")
    /\ NonEmptyLevels(last.pre) = {1, 2, 3}
    /\ NonEmptyLevels(shipment) = {1}

\* C37: remove_recursively(x) removes only x and containers of the levels
\* above the level of x: every other container of the level of x or of a
\* level below stays placed with its cells occupied, and every container
\* left in place that was stable before the call is stable after it.
C37_RemoveRecursiveFrame ==
    (LastIs("remove_recursively") /\ last.placed_container \in Placed(last.pre)) =>
        LET x == last.placed_container IN
        /\ Placed(shipment) \subseteq Placed(last.pre)
        /\ \A g \in Placed(last.pre) \ Placed(shipment) :
              g = x \/ g.corner1.height_level > x.corner1.height_level
        /\ \A pc \in Placed(last.pre) \ {x} :
              pc.corner1.height_level <= x.corner1.height_level =>
                  /\ pc \in Placed(shipment)
                  /\ pc.container \in Cargo(shipment)
                  /\ Footprint(pc) \subseteq Occupied(shipment)
        /\ \A pc \in Placed(shipment) :
              MeetsThreshold(Occupied(last.pre), pc)
                  => MeetsThreshold(Occupied(shipment), pc)

\* C37 witness: x and a container above it are gone and another container of
\* the level of x is left in place.
C37_Witness ==
    /\ LastIs("remove_recursively")
    /\ last.placed_container \in Placed(last.pre)
    /\ LET x == last.placed_container IN
       /\ \E g \in Placed(last.pre) \ Placed(shipment) :
             g.corner1.height_level > x.corner1.height_level
       /\ \E pc \in Placed(shipment) :
             /\ pc.corner1.height_level = x.corner1.height_level
             /\ Footprint(pc) \subseteq Occupied(shipment)

\* a container above level 0 is removed and a stable container above level 0
\* is left in place
C37_WitnessKept ==
    /\ LastIs("remove_recursively")
    /\ last.placed_container \in Placed(last.pre)
    /\ last.placed_container.corner1.height_level > 0
    /\ \E pc \in Placed(shipment) :
          /\ pc.corner1.height_level > 0
          /\ MeetsThreshold(Occupied(last.pre), pc)
          /\ MeetsThreshold(Occupied(shipment), pc)

\* ------------------------------------------------ Operator claims, again

\* C38: no container is both waiting and sent and none is twice in either
\* list; send moves only containers that are waiting, a sent container never
\* waits again, and so in a run every container is sent at most once.
C38_SentOnce ==
    /\ [](/\ Waiting \cap Sent = {}
          /\ Cids(containers_manager.waiting_containers)
                \cap Cids(containers_manager.sent_containers) = {}
          /\ Cardinality(Cids(containers_manager.waiting_containers))
                = Len(containers_manager.waiting_containers)
          /\ Cardinality(Cids(containers_manager.sent_containers))
                = Len(containers_manager.sent_containers))
    /\ [][/\ Len(containers_manager.sent_containers)
                <= Len(containers_manager'.sent_containers)
          /\ SubSeq(containers_manager'.sent_containers, 1,
                    Len(containers_manager.sent_containers))
                = containers_manager.sent_containers
          /\ \A i \in 1..Len(containers_manager'.sent_containers) :
                i > Len(containers_manager.sent_containers) =>
                    /\ containers_manager'.sent_containers[i] \in Waiting
                    /\ containers_manager'.sent_containers[i] \notin Waiting'
          /\ \A i \in 1..Len(containers_manager'.waiting_containers) :
                containers_manager'.waiting_containers[i] \notin Sent]_vars

\* C38 witness: after three iterations two containers have been sent, in
\* different iterations, and a third one, loaded by no shipment, is waiting.
C38_Witness ==
    /\ operator.pc = "done"
    /\ Iterations = 3
    /\ Len(containers_manager.sent_containers) = 2
    /\ Len(containers_manager.waiting_containers) = 1
    /\ containers_manager.sent_containers[1].timestamp
          < containers_manager.sent_containers[2].timestamp

\* C39: once the data are entered, the timestamp of every waiting container
\* is a timestamp of the timestamps manager, so the least timestamp of every
\* batch is a value set_min can take.
C39_WaitingTimestampsObserved ==
    /\ \A c \in Waiting : c.timestamp \in Backing(timestamps_manager)
    /\ \A k \in 1..Iterations :
          MinTimestamp(optimizer_calls[k].containers)
              \in Backing(timestamps_manager)

====
